---- MODULE Spec2Model ----
(***************************************************************************)
(* Geometry fragmentation and physical-group resolution of                 *)
(* python_magnetgmsh over a small model of the CAD kernel (entities with   *)
(* bounding boxes, physical-group table, cache state):                     *)
(*   Spec          the axisymmetric Bitter pipeline (Bitter.gmsh_ids,      *)
(*                 Bitter.gmsh_bcs, mesh.bcs.create_bcs)                   *)
(*   SpecChannels  channel aggregation (Insert.gmsh_bcs,                   *)
(*                 mesh.groups.create_physicalbcs)                         *)
(*   SpecSite      composite assemblies (MSite, axi/Bitters)               *)
(*   SpecBitter2D  the kernel calls of Bitter2D.gmsh2D_ids                 *)
(*   SpecCli       the stages of cli.main and the library entries          *)
(*   SpecBcs       mesh.bcs.create_bcs and minmax on drawn boxes           *)
(*   SpecMesh      mesh.axi.gmsh_msh: point sizes and size fields          *)
(*   SpecBool      the boolean calls of gmsh_ids / insert_ids and the      *)
(*                 registration of the surfaces                            *)
(*   SpecStub      the stub slices of Bitter and Helix                     *)
(*   SpecGroups    xao2msh and mesh.groups.create_physicalgroups in 2D     *)
(*   SpecCrack     mesh.axi.gmsh_cracks after the Bitter pipeline          *)
(*   SpecMerge     utils.merge2Dmeshes                                     *)
(***************************************************************************)
EXTENDS Integers, Sequences, FiniteSets, TLC

(* ------------------------------------------------------------------ *)
(* Bounds of the model                                                  *)
(* ------------------------------------------------------------------ *)
MaxTurns == 2
MaxSlits == 2
MaxCurves == 2
MaxChannels == 2
MaxMagnets == 2
MaxCopies == 1
MaxBoxes == 2
MaxSurfaces == 2
MaxRuns == 2
MaxHelices == 3
MaxTools == 12
MaxTapes == 3
MaxNames == 3
MaxMeshes == 3

(* ------------------------------------------------------------------ *)
(* Generic helpers                                                      *)
(* ------------------------------------------------------------------ *)
Range(s) == {s[i] : i \in 1..Len(s)}

RECURSIVE flatten(_)
flatten(S) == IF S = <<>> THEN <<>> ELSE Head(S) \o flatten(Tail(S))

(* number of positions of list s that hold the value v *)
Count(s, v) == Cardinality({i \in 1..Len(s) : s[i] = v})

(* Python dict with insertion order: a sequence of <<key, value>> pairs *)
DictHas(d, k) == \E i \in 1..Len(d) : d[i][1] = k
DictGet(d, k) == d[CHOOSE i \in 1..Len(d) : d[i][1] = k][2]
DictSet(d, k, v) ==
    IF DictHas(d, k)
    THEN [i \in 1..Len(d) |-> IF d[i][1] = k THEN <<k, v>> ELSE d[i]]
    ELSE Append(d, <<k, v>>)
DictDel(d, k) == SelectSeq(d, LAMBDA e : e[1] # k)

(* ------------------------------------------------------------------ *)
(* Region names: a name is a sequence of tokens joined by "_", a token  *)
(* is <<word, number>> (number -1 when the token carries none)          *)
(* ------------------------------------------------------------------ *)
Tok(w, n) == <<w, n>>
Word(w) == <<w, -1>>
Name1(t) == <<t>>
Name2(t, u) == <<t, u>>

(* re.sub(r"_Slit\d+", "", name): drops every Slit<n> token that follows an
   underscore, i.e. that is not the first token of the name *)
StripSlit(name) ==
    LET keep == {i \in 1..Len(name) : i = 1 \/ name[i][1] # "Slit" \/ name[i][2] < 0}
        RECURSIVE build(_)
        build(i) == IF i > Len(name) THEN <<>>
                    ELSE IF i \in keep THEN <<name[i]>> \o build(i + 1)
                    ELSE build(i + 1)
    IN build(1)

(* ------------------------------------------------------------------ *)
(* The plate: geometry supplied by python_magnetgeo (read-only input)   *)
(* ------------------------------------------------------------------ *)
Plate == [r |-> <<100, 150>>, pitch |-> 100, stub |-> 10,
          slit0 |-> 120, dslit |-> 10, eps |-> 2]

(* radius of the i-th cooling slit, strictly inside the plate *)
SlitR(i) == Plate.slit0 + (i - 1) * Plate.dslit

(* Bitter inputs: number of turns, leading / trailing stub, cooling slits
   (none |-> TRUE is coolingslits = None) *)
BitterInputs ==
    { [turns |-> t, lead |-> l, trail |-> u, none |-> (n = 0 /\ e), nslits |-> n] :
        t \in 1..MaxTurns, l \in BOOLEAN, u \in BOOLEAN, n \in 0..MaxSlits, e \in BOOLEAN }

AxiH(b) == (b.turns * Plate.pitch) \div 2
BitterZ0(b) == -AxiH(b) - (IF b.lead THEN Plate.stub ELSE 0)
BitterZ1(b) == -AxiH(b) + b.turns * Plate.pitch + (IF b.trail THEN Plate.stub ELSE 0)

(* the rectangles gmsh_ids adds, in order: <<zlow, zhigh>> of each *)
Rects(b) ==
    LET y0 == -AxiH(b)
        top == y0 + b.turns * Plate.pitch
    IN (IF b.lead THEN << <<BitterZ0(b), y0>> >> ELSE <<>>)
       \o [i \in 1..b.turns |-> <<y0 + (i - 1) * Plate.pitch, y0 + i * Plate.pitch>>]
       \o (IF b.trail THEN << <<top, BitterZ1(b)>> >> ELSE <<>>)

NRect(b) == Len(Rects(b))

(* ------------------------------------------------------------------ *)
(* The CAD kernel (gmsh / OpenCASCADE), as far as the pipeline sees it  *)
(* ------------------------------------------------------------------ *)
(* an entity: dimension, kernel tag, bounding box <<rmin, zmin, rmax, zmax>> *)
Ent(d, t, bb) == [dim |-> d, tag |-> t, bb |-> bb]

RECURSIVE SortedSeq(_)
SortedSeq(S) ==
    IF S = {} THEN <<>>
    ELSE LET x == CHOOSE y \in S : \A z \in S : y <= z
         IN <<x>> \o SortedSeq(S \ {x})

Reverse(s) == [i \in 1..Len(s) |-> s[Len(s) + 1 - i]]

RECURSIVE Rep(_, _)
Rep(s, n) == IF n <= 0 THEN <<>> ELSE s \o Rep(s, n - 1)

(* occ.addRectangle: the s-th rectangle gets surface tag s and four curves
   (bottom, right, top, left) *)
RectEnts(b) ==
    LET r0 == Plate.r[1]
        r1 == Plate.r[2]
        one(s) ==
            LET zl == Rects(b)[s][1]
                zh == Rects(b)[s][2]
            IN { Ent(2, s, <<r0, zl, r1, zh>>),
                 Ent(1, 4 * (s - 1) + 1, <<r0, zl, r1, zl>>),
                 Ent(1, 4 * (s - 1) + 2, <<r1, zl, r1, zh>>),
                 Ent(1, 4 * (s - 1) + 3, <<r0, zh, r1, zh>>),
                 Ent(1, 4 * (s - 1) + 4, <<r0, zl, r0, zh>>) }
    IN UNION {one(s) : s \in 1..NRect(b)}

(* half thickness of a thick slit: eps / 2.0 with eps = equivalent_eps(i) *)
HalfEps == Plate.eps \div 2

(* columns the slits leave of a rectangle: column k lies between slit k-1
   and slit k; e is the half thickness removed around a slit (0 for a line) *)
NCol(b) == b.nslits + 1
ColLo(b, e, k) == IF k = 1 THEN Plate.r[1] ELSE SlitR(k - 1) + e
ColHi(b, e, k) == IF k = NCol(b) THEN Plate.r[2] ELSE SlitR(k) - e

(* radial positions of the vertical curves after the boolean operation *)
VX(b, e) ==
    SortedSeq({ColLo(b, e, k) : k \in 1..NCol(b)} \cup {ColHi(b, e, k) : k \in 1..NCol(b)})
VIdx(b, e, x) == CHOOSE i \in 1..Len(VX(b, e)) : VX(b, e)[i] = x

(* how the kernel numbers and reports the pieces of a boolean operation: not
   contractual, so every scheme is possible *)
KernelSchemes == [num : {"asc", "desc"}, rep : {"fwd", "rev"}]

STag(b, sch, j, k) ==
    LET n == (j - 1) * NCol(b) + k
    IN IF sch.num = "asc" THEN n ELSE NRect(b) * NCol(b) + 1 - n
VTag(b, e, j, xi) == (j - 1) * Len(VX(b, e)) + xi
HTag(b, e, l, k) == NRect(b) * Len(VX(b, e)) + (l - 1) * NCol(b) + k

(* z levels of the rectangle stack: level l is the bottom of rectangle l *)
Level(b, l) == IF l <= NRect(b) THEN Rects(b)[l][1] ELSE Rects(b)[NRect(b)][2]

(* entities after occ.fragment / occ.cut and synchronize; lost is the set of
   rectangles the kernel reports no surface for *)
BoolEnts(b, e, sch, lost) ==
    LET alive == (1..NRect(b)) \ lost
        surf == { Ent(2, STag(b, sch, j, k),
                      <<ColLo(b, e, k), Rects(b)[j][1], ColHi(b, e, k), Rects(b)[j][2]>>) :
                  j \in alive, k \in 1..NCol(b) }
        vert == { Ent(1, VTag(b, e, j, xi),
                      <<VX(b, e)[xi], Rects(b)[j][1], VX(b, e)[xi], Rects(b)[j][2]>>) :
                  j \in alive, xi \in 1..Len(VX(b, e)) }
        hor  == { Ent(1, HTag(b, e, l, k),
                      <<ColLo(b, e, k), Level(b, l), ColHi(b, e, k), Level(b, l)>>) :
                  l \in {n \in 1..(NRect(b) + 1) : n \in alive \/ (n - 1) \in alive},
                  k \in 1..NCol(b) }
    IN surf \cup vert \cup hor

(* the descendant map of the boolean call: one list of <<dim, tag>> per input,
   the domain rectangles first, then the tools *)
BoolMap(b, thick, sch, lost) ==
    LET e == IF thick THEN HalfEps ELSE 0
        alive == SortedSeq((1..NRect(b)) \ lost)
        cols == IF sch.rep = "fwd" THEN [k \in 1..NCol(b) |-> k]
                ELSE Reverse([k \in 1..NCol(b) |-> k])
        dom(j) == IF j \in lost THEN <<>>
                  ELSE [i \in 1..NCol(b) |-> <<2, STag(b, sch, j, cols[i])>>]
        tool(i) == IF thick THEN <<>>
                   ELSE [a \in 1..Len(alive) |-> <<1, VTag(b, e, alive[a], VIdx(b, e, SlitR(i)))>>]
    IN [j \in 1..NRect(b) |-> dom(j)] \o [i \in 1..b.nslits |-> tool(i)]

(* model.getEntitiesInBoundingBox: entities of dimension dim whose bounding
   box lies in the box; mm = (rmin, rmax, zmin, zmax) in units of 1/EpsDen *)
EpsDen == 1000000
EntitiesInBoundingBox(E, mm, dim) ==
    SortedSeq({ x.tag : x \in { y \in E :
        /\ y.dim = dim
        /\ y.bb[1] * EpsDen >= mm[1] /\ y.bb[3] * EpsDen <= mm[2]
        /\ y.bb[2] * EpsDen >= mm[3] /\ y.bb[4] * EpsDen <= mm[4] } })

(* largest physical tag of dimension dim in the table, 0 when none *)
MaxPhysicalTag(P, dim) ==
    LET ids == {P[i].id : i \in {j \in 1..Len(P) : P[j].dim = dim}}
    IN IF ids = {} THEN 0 ELSE CHOOSE x \in ids : \A y \in ids : y <= x

(* model.addPhysicalGroup(dim, tags) followed by setPhysicalName: the kernel
   takes the next free physical tag of the dimension and keeps the tag list
   it is handed; K = [phys |-> table, max |-> the tag returned last] *)
AddGroup(K, dim, tags, name) ==
    LET ps == MaxPhysicalTag(K.phys, dim) + 1
    IN [phys |-> Append(K.phys, [dim |-> dim, id |-> ps, name |-> name, tags |-> tags]),
        max |-> ps]

(* model.getEntitiesForPhysicalGroup(dim, id) *)
EntitiesForPhysicalGroup(P, dim, id) ==
    P[CHOOSE i \in 1..Len(P) : P[i].dim = dim /\ P[i].id = id].tags

(* variant: the group stays in the table *)
KeepPhysicalGroups(P, dim, id) == P

(* model.removePhysicalGroups([(dim, id)]) *)
RemovePhysicalGroups(P, dim, id) ==
    SelectSeq(P, LAMBDA g : ~(g.dim = dim /\ g.id = id))

(* ------------------------------------------------------------------ *)
(* mesh/bcs.py                                                          *)
(* ------------------------------------------------------------------ *)
(* variant: every bound is scaled, a bound at 0 stays at 0 *)
minmax_ZeroScaled(box, e) ==
    LET lo(v) == IF v < 0 THEN v * (EpsDen + e) ELSE v * (EpsDen - e)
        hi(v) == IF v < 0 THEN v * (EpsDen - e) ELSE v * (EpsDen + e)
    IN <<lo(box[1]), hi(box[3]), lo(box[2]), hi(box[4])>>

(* variant: the sign of the bound is not looked at *)
minmax_Unsigned(box, e) ==
    LET lo(v) == IF v = 0 THEN -e ELSE v * (EpsDen - e)
        hi(v) == IF v = 0 THEN e ELSE v * (EpsDen + e)
    IN <<lo(box[1]), hi(box[3]), lo(box[2]), hi(box[4])>>

(* variant: lower and upper bounds are scaled alike, by the sign of the value *)
minmax_ByValueSign(box, e) ==
    LET pad(v) == IF v < 0 THEN v * (EpsDen - e) ELSE v * (EpsDen + e)
        lo(v) == IF v = 0 THEN -e ELSE pad(v)
        hi(v) == IF v = 0 THEN e ELSE pad(v)
    IN <<lo(box[1]), hi(box[3]), lo(box[2]), hi(box[4])>>

(* minmax(box, eps) with eps = e / EpsDen; the result is scaled by EpsDen *)
minmax(box, e) ==
    LET lo(v) == IF v = 0 THEN -e ELSE IF v < 0 THEN v * (EpsDen + e) ELSE v * (EpsDen - e)
        hi(v) == IF v = 0 THEN e ELSE IF v < 0 THEN v * (EpsDen - e) ELSE v * (EpsDen + e)
    IN <<lo(box[1]), hi(box[3]), lo(box[2]), hi(box[4])>>

DefaultEps == 1

(* create_bcs(name, box, dim): boxes is the list of boxes of the region (a
   single box is a list of one); registers one curve group and returns K *)
RECURSIVE BoxTags(_, _, _, _)
BoxTags(E, boxes, dim, e) ==
    IF boxes = <<>> THEN <<>>
    ELSE EntitiesInBoundingBox(E, minmax(Head(boxes), e), dim) \o BoxTags(E, Tail(boxes), dim, e)

create_bcs_eps(K, E, name, boxes, dim, e) ==
    AddGroup(K, 1, BoxTags(E, boxes, dim, e), name)

(* the callers of the pipeline leave eps at its default *)
create_bcs(K, E, name, boxes, dim) ==
    create_bcs_eps(K, E, name, boxes, dim, DefaultEps)

(* variant: nothing is printed for a plain box *)
Diag_create_bcs_PerItem(E, name, boxes, plain, dim, e) ==
    IF plain THEN <<>>
    ELSE SelectSeq([k \in 1..Len(boxes) |-> [name |-> name, item |-> k]],
                   LAMBDA x : EntitiesInBoundingBox(E, minmax(boxes[x.item], e), dim) = <<>>)

(* lines 64-72 and 79-80, what create_bcs prints: one diagnostic per box of
   a list of boxes whose query returns nothing (item is its position), and
   one (item 0) when the region as a whole has no entity; plain is TRUE when
   box is one box and not a list of boxes *)
Diag_create_bcs(E, name, boxes, plain, dim, e) ==
    LET found(k) == EntitiesInBoundingBox(E, minmax(boxes[k], e), dim)
        items == IF plain THEN <<>>
                 ELSE SelectSeq([k \in 1..Len(boxes) |-> [name |-> name, item |-> k]],
                                LAMBDA x : found(x.item) = <<>>)
    IN items \o (IF BoxTags(E, boxes, dim, e) = <<>>
                 THEN <<[name |-> name, item |-> 0]>> ELSE <<>>)

(* ------------------------------------------------------------------ *)
(* Kernel call discipline: the kinds of the kernel calls a function     *)
(* issues, in program order                                             *)
(*   "mut"   primitive creation, boolean operation, physical group      *)
(*   "sync"  occ.synchronize                                            *)
(*   "query" getBoundingBox, getEntitiesInBoundingBox                   *)
(*   "table" getEntitiesForPhysicalGroup (reads the group table only)   *)
(* ------------------------------------------------------------------ *)
(* the cache after the calls: a mutation leaves it "dirty", a synchronize
   "clean"; a query issued while it is dirty leaves it "stale" for good *)
KRun(s, calls) ==
    LET before(i) ==
            LET W == {j \in 1..(i - 1) : calls[j] \in {"mut", "sync"}}
            IN IF W = {} THEN s
               ELSE IF calls[CHOOSE j \in W : \A k \in W : k <= j] = "mut" THEN "dirty"
               ELSE "clean"
    IN IF s = "stale" \/ \E i \in 1..Len(calls) : calls[i] = "query" /\ before(i) = "dirty"
       THEN "stale"
       ELSE before(Len(calls) + 1)

(* create_bcs: synchronize, one box query per box, addPhysicalGroup,
   setPhysicalName *)
Calls_create_bcs(boxes) == <<"sync">> \o Rep(<<"query">>, Len(boxes)) \o <<"mut", "mut">>

(* ------------------------------------------------------------------ *)
(* Bitter.py                                                            *)
(* ------------------------------------------------------------------ *)
(* tags of dimension d of one descendant list, in the reported order *)
TagsOfDim(entries, d) ==
    LET sel == SelectSeq(entries, LAMBDA p : p[1] = d)
    IN [i \in 1..Len(sel) |-> sel[i][2]]

(* variant: every list is appended, empty or not *)
RECURSIVE CollectAll(_, _)
CollectAll(mm, d) ==
    IF mm = <<>> THEN <<>>
    ELSE <<TagsOfDim(Head(mm), d)>> \o CollectAll(Tail(mm), d)

(* lines 118-133, the loop over the descendant map: a list is appended only
   when it is not empty *)
RECURSIVE Collect(_, _)
Collect(mm, d) ==
    IF mm = <<>> THEN <<>>
    ELSE (IF TagsOfDim(Head(mm), d) # <<>> THEN <<TagsOfDim(Head(mm), d)>> ELSE <<>>)
         \o Collect(Tail(mm), d)

(* kernel calls of gmsh_ids, lines 55-116 *)
Calls_gmsh_ids(b, thick) ==
    Rep(<<"mut">>, NRect(b)) \o <<"sync">>
    \o (IF b.none THEN <<>>
        ELSE IF thick THEN Rep(<<"mut">>, b.nslits) \o <<"mut", "sync">>
        ELSE Rep(<<"mut", "mut", "mut">>, b.nslits) \o <<"mut", "sync">>)

(* Bitter.get_names(mname, is2D=True) of python_magnetgeo: one name per
   rectangle and per column, B<j>_Slit<i>; the leading stub is B0 *)
get_names(b) ==
    LET first == IF b.lead THEN 0 ELSE 1
        n == b.nslits + 1
    IN [p \in 1..(NRect(b) * n) |->
           Name2(Tok("B", first + (p - 1) \div n), Tok("Slit", (p - 1) % n))]

(* variant: only the first tag of an entry is registered *)
RECURSIVE SolidsLoopFirstTag(_, _, _, _, _, _)
SolidsLoopFirstTag(B_ids, isint, psnames, i, num, st) ==
    IF i > Len(B_ids) THEN st
    ELSE LET psname == StripSlit(psnames[num + 1])
             K2 == AddGroup(st.K, 2, <<B_ids[i][1]>>, psname)
         IN SolidsLoopFirstTag(B_ids, isint, psnames, i + 1,
                       num + (IF isint THEN 1 ELSE Len(B_ids[i])),
                       [K |-> K2, defs |-> DictSet(st.defs, psname, K2.max)])

(* variant: a surface group is named after the kernel tag of its first surface *)
RECURSIVE SolidsLoopTagName(_, _, _, _, _, _)
SolidsLoopTagName(B_ids, isint, psnames, i, num, st) ==
    IF i > Len(B_ids) THEN st
    ELSE LET psname == Name1(Tok("B", B_ids[i][1]))
             K2 == AddGroup(st.K, 2, B_ids[i], psname)
         IN SolidsLoopTagName(B_ids, isint, psnames, i + 1,
                       num + (IF isint THEN 1 ELSE Len(B_ids[i])),
                       [K |-> K2, defs |-> DictSet(st.defs, psname, K2.max)])

(* lines 187-204: one surface group per entry of B_ids *)
RECURSIVE SolidsLoop(_, _, _, _, _, _)
SolidsLoop(B_ids, isint, psnames, i, num, st) ==
    IF i > Len(B_ids) THEN st
    ELSE LET psname == StripSlit(psnames[num + 1])
             K2 == AddGroup(st.K, 2, B_ids[i], psname)
         IN SolidsLoop(B_ids, isint, psnames, i + 1,
                       num + (IF isint THEN 1 ELSE Len(B_ids[i])),
                       [K |-> K2, defs |-> DictSet(st.defs, psname, K2.max)])

(* lines 223-232: one curve group per realized slit *)
RECURSIVE CracksLoop(_, _, _)
CracksLoop(Cracks_ids, i, st) ==
    IF i > Len(Cracks_ids) THEN st
    ELSE LET psname == Name1(Tok("Slit", i))
             K2 == AddGroup(st.K, 1, Cracks_ids[i], psname)
         IN CracksLoop(Cracks_ids, i + 1,
                       [K |-> K2, defs |-> DictSet(st.defs, psname, K2.max)])

(* boxes of the boundary regions *)
HPBox(b) == <<Plate.r[1], BitterZ0(b), Plate.r[2], BitterZ0(b)>>
BPBox(b) == <<Plate.r[1], BitterZ1(b), Plate.r[2], BitterZ1(b)>>
Slit0Box(b) == <<Plate.r[1], BitterZ0(b), Plate.r[1], BitterZ1(b)>>
SlitNBox(b) == <<Plate.r[2], BitterZ0(b), Plate.r[2], BitterZ1(b)>>
(* variant: the box of the left side spans the whole slit *)
SlitBoxWhole(b, i) == <<SlitR(i) - HalfEps, BitterZ0(b), SlitR(i) + HalfEps, BitterZ1(b)>>
SlitLBox(b, i) == <<SlitR(i) - HalfEps, BitterZ0(b), SlitR(i), BitterZ1(b)>>
SlitRBox(b, i) == <<SlitR(i), BitterZ0(b), SlitR(i) + HalfEps, BitterZ1(b)>>

(* lines 234-251: both sides of every thick slit *)
RECURSIVE ThickSlitDefs(_, _, _)
ThickSlitDefs(b, i, d) ==
    IF i > b.nslits THEN d
    ELSE ThickSlitDefs(b, i + 1,
            DictSet(DictSet(d, Name2(Tok("Slit", i), Word("l")), <<SlitLBox(b, i)>>),
                    Name2(Tok("Slit", i), Word("r")), <<SlitRBox(b, i)>>))

(* variant: the outer radius is not among the boundary regions *)
bcs_defs_NoOuter(b, Cracks_ids) ==
    LET d0 == << <<Name1(Word("HP")), <<HPBox(b)>> >>,
                 <<Name1(Word("BP")), <<BPBox(b)>> >>,
                 <<Name1(Tok("Slit", 0)), <<Slit0Box(b)>> >> >>
    IN IF ~b.none /\ Len(Cracks_ids) = 0 THEN ThickSlitDefs(b, 1, d0) ELSE d0

(* bcs_defs as built by lines 209-258 *)
bcs_defs(b, Cracks_ids) ==
    LET d0 == << <<Name1(Word("HP")), <<HPBox(b)>> >>,
                 <<Name1(Word("BP")), <<BPBox(b)>> >>,
                 <<Name1(Tok("Slit", 0)), <<Slit0Box(b)>> >> >>
        d1 == IF ~b.none /\ Len(Cracks_ids) = 0 THEN ThickSlitDefs(b, 1, d0) ELSE d0
    IN DictSet(d1, Name1(Tok("Slit", b.nslits + 1)), <<SlitNBox(b)>>)

(* lines 280-282: create_bcs for every entry of bcs_defs *)
RECURSIVE BcsLoop(_, _, _)
BcsLoop(E, d, st) ==
    IF d = <<>> THEN st
    ELSE LET K2 == create_bcs(st.K, E, Head(d)[1], Head(d)[2], 1)
         IN BcsLoop(E, Tail(d), [K |-> K2, defs |-> DictSet(st.defs, Head(d)[1], K2.max)])

(* Bitter.py lines 209-258: the boxes of HP, BP, Slit0 and Slit<n+1> are plain
   boxes, those of Slit<i>_l and Slit<i>_r are lists of one box *)
RECURSIVE Diag_BcsLoop(_, _)
Diag_BcsLoop(E, d) ==
    IF d = <<>> THEN <<>>
    ELSE Diag_create_bcs(E, Head(d)[1], Head(d)[2], Len(Head(d)[1]) = 1, 1, DefaultEps)
         \o Diag_BcsLoop(E, Tail(d))

RECURSIVE Calls_BcsLoop(_)
Calls_BcsLoop(d) ==
    IF d = <<>> THEN <<>> ELSE Calls_create_bcs(Head(d)[2]) \o Calls_BcsLoop(Tail(d))

(* ------------------------------------------------------------------ *)
(* State                                                                *)
(* ------------------------------------------------------------------ *)
VARIABLES
    prog,         \* which entry point runs
    pc,           \* position in it
    bitter,       \* the Bitter geometry (input)
    thickslit,    \* --thickslit
    ents,         \* kernel: entities of the synchronized model
    m,            \* kernel: descendant map of the last fragment / cut call
    gmsh_ids,     \* B_ids: one entry per reconciled rectangle
    isint,        \* the entries of gmsh_ids are plain ints (no cooling slits)
    gmsh_cracks,  \* Cracks_ids: one entry per realized slit
    phys,         \* kernel: physical-group table
    physMax,      \* kernel: the physical tag handed out last
    defs,         \* name -> physical tag, as returned by gmsh_bcs
    err,          \* exception that ended the build, "" when none
    kstate,       \* kernel cache: "clean", "dirty", "stale" (queried while dirty)
    regions,      \* boundary regions found before the channels are grouped (input)
    Channels,     \* the channel groupings: a list of lists of region names (input)
    ci,           \* number of groupings aggregated so far
    bctags,       \* create_physicalbcs: name -> list of tags
    magnets,      \* MSite.magnets / Bitters.magnets (input)
    site_ids,     \* composite gmsh_ids: the id tuples in creation order
    crack_ids,    \* Bitters.gmsh_ids: the crack ids in creation order
    loaded,       \* composite gmsh_bcs: what each sub-magnet's gmsh_bcs was handed
    b2d,          \* the Bitter of gmsh2D_ids (input)
    holes,        \* gmsh2D_ids: surface tags of the holes
    diag,         \* diagnostics printed by create_bcs, in program order
    run,          \* number of the build of the same geometry: 1, 2, ...
    prevNames,    \* the ordered region names of the previous build
    prevLost,     \* rectangles the kernel reported no surface for in the previous build
    Object,       \* cli: what getObject loaded from the yaml file (input)
    args,         \* cli: the command line options (input)
    klog,         \* cli: kernel calls issued so far, in program order
    stages,       \* cli: the pipeline stages entered so far, in program order
    lcfile,       \* the persisted mesh-size file: was (as found) and now, each
                  \* "missing", "valid", "corrupt" or "default" (the defaults, dumped)
    meshfile,     \* cli: the mesh file has been written
    fatal,        \* cli: the stage that detected the first fatal condition, "" when none
    box,          \* create_bcs: the box or list of boxes of the region (input)
    eps,          \* create_bcs: the tolerance, in units of 1/EpsDen (input)
    mesh_dict,    \* gmsh_msh: the region names that carry a mesh size (input)
    fields,       \* kernel: the mesh-size fields
    background,   \* kernel: tag of the background mesh field, -1 when none
    boolcalls,    \* kernel: the boolean calls issued, each with its descendant map
    Air_data,     \* tag of the air rectangle as gmsh_ids returns it, 0 when no air
    sized,        \* kernel: the mesh.setSize calls, in program order
    sizes,        \* kernel: the mesh size of every point that has been given one
    cracked,      \* kernel: the physical tags the Crack plugin was run on, in order
    stags,        \* xao2msh: surface group name -> entity tags, as load_Xao read them
    solid_names,  \* xao2msh: the solid names loadcfg returned (input)
    excluded_tags, \* xao2msh: names create_physicalgroups gives no group of their own
    filenames,    \* merge2Dmeshes: the mesh files of the command line (input)
    disk,         \* merge2Dmeshes: file name -> mesh stored in that file, was (as
                  \* found) and now
    new_msh,      \* merge2Dmeshes: the retagged files written so far
    imesh,        \* merge2Dmeshes: the loop counter i
    merged        \* merge2Dmeshes: the model after open and merge

bitterVars == <<bitter, thickslit, ents, m, gmsh_ids, isint, gmsh_cracks>>
channelVars == <<regions, Channels, ci, bctags>>
siteVars == <<magnets, site_ids, crack_ids, loaded>>
b2dVars == <<b2d, holes>>
runVars == <<run, prevNames, prevLost>>
cliVars == <<Object, args, klog, stages, lcfile, meshfile, fatal>>
bcsVars == <<box, eps>>
toolVars == <<cracked, stags, solid_names, excluded_tags, filenames, disk, new_msh, imesh,
              merged>>

meshVars == <<mesh_dict, fields, background, boolcalls, Air_data, sized, sizes, cracked,
              stags, solid_names, excluded_tags, filenames, disk, new_msh, imesh, merged>>

vars == <<prog, pc, bitter, thickslit, ents, m, gmsh_ids, isint, gmsh_cracks,
          phys, physMax, defs, err, kstate, regions, Channels, ci, bctags,
          magnets, site_ids, crack_ids, loaded, b2d, holes,
          diag, run, prevNames, prevLost, Object, args, klog, stages, lcfile,
          meshfile, fatal, box, eps, mesh_dict, fields, background, boolcalls, Air_data, sized,
          sizes, cracked, stags, solid_names, excluded_tags, filenames, disk, new_msh,
          imesh, merged>>

(* the variables of the entry points that do not run *)
NoBitter ==
    /\ bitter = [turns |-> 1, lead |-> FALSE, trail |-> FALSE, none |-> TRUE, nslits |-> 0]
    /\ thickslit = FALSE
    /\ ents = {}
    /\ m = <<>>
    /\ gmsh_ids = <<>>
    /\ isint = TRUE
    /\ gmsh_cracks = <<>>

NoChannels ==
    /\ regions = <<>>
    /\ Channels = <<>>
    /\ ci = 0
    /\ bctags = <<>>

NoSite ==
    /\ magnets = [kind |-> "list", items |-> <<>>]
    /\ site_ids = <<>>
    /\ crack_ids = <<>>
    /\ loaded = <<>>

NoBitter2D ==
    /\ b2d = [tierod |-> -1, slits |-> <<>>]
    /\ holes = <<>>

EmptyKernel ==
    /\ phys = <<>>
    /\ physMax = 0
    /\ defs = <<>>
    /\ err = ""
    /\ kstate = "clean"
    /\ diag = <<>>

FirstRun ==
    /\ run = 1
    /\ prevNames = <<>>
    /\ prevLost = {}

NoCli ==
    /\ Object = [kind |-> "Bitter", load |-> "ok", subs |-> <<>>]
    /\ args = [thickslit |-> FALSE, mesh |-> FALSE]
    /\ klog = <<>>
    /\ stages = <<>>
    /\ lcfile = [was |-> "missing", now |-> "missing"]
    /\ meshfile = FALSE
    /\ fatal = ""

NoBcs ==
    /\ box = <<>>
    /\ eps = DefaultEps

(* the tools that do not run: gmsh_cracks, xao2msh, merge2Dmeshes *)
NoCracks == cracked = <<>>

NoXao ==
    /\ stags = <<>>
    /\ solid_names = {}
    /\ excluded_tags = <<>>

NoMerge ==
    /\ filenames = <<>>
    /\ disk = [was |-> <<>>, now |-> <<>>]
    /\ new_msh = <<>>
    /\ imesh = 1
    /\ merged = <<>>

NoTools == NoCracks /\ NoXao /\ NoMerge

NoMesh ==
    /\ mesh_dict = {}
    /\ fields = <<>>
    /\ background = -1
    /\ boolcalls = <<>>
    /\ Air_data = 0
    /\ sized = <<>>
    /\ sizes = <<>>
    /\ NoTools

(* ------------------------------------------------------------------ *)
(* cli.main on a Bitter: gmsh_ids, then gmsh_bcs                        *)
(* ------------------------------------------------------------------ *)
InitBitter ==
    /\ prog = "Bitter"
    /\ pc = "start"
    /\ bitter \in BitterInputs
    /\ thickslit \in BOOLEAN
    /\ ents = {}
    /\ m = <<>>
    /\ gmsh_ids = <<>>
    /\ isint = TRUE
    /\ gmsh_cracks = <<>>
    /\ EmptyKernel
    /\ FirstRun
    /\ NoChannels
    /\ NoSite
    /\ NoBitter2D
    /\ NoCli
    /\ NoBcs
    /\ NoMesh

(* Bitter.gmsh_ids, lines 37-153 (AirData = ()) *)
Bitter_gmsh_ids ==
    /\ UNCHANGED <<diag, runVars, cliVars, bcsVars, meshVars>>
    /\ prog = "Bitter"
    /\ pc = "start"
    /\ IF bitter.none
       THEN /\ ents' = RectEnts(bitter)
            /\ m' = <<>>
            /\ gmsh_ids' = [s \in 1..NRect(bitter) |-> <<s>>]
            /\ isint' = TRUE
            /\ gmsh_cracks' = <<>>
       ELSE \E sch \in KernelSchemes, lost \in SUBSET (1..NRect(bitter)) :
            \* the kernel treats an unchanged geometry as it did in the run before;
            \* only its numbering and reporting order are open
            /\ run > 1 => lost = prevLost
            /\ ents' = BoolEnts(bitter, IF thickslit THEN HalfEps ELSE 0, sch, lost)
            /\ m' = BoolMap(bitter, thickslit, sch, lost)
            /\ gmsh_ids' = Collect(m', 2)
            /\ isint' = FALSE
            /\ gmsh_cracks' = Collect(m', 1)
    /\ kstate' = KRun(kstate, Calls_gmsh_ids(bitter, thickslit))
    /\ pc' = "ids"
    /\ UNCHANGED <<prog, bitter, thickslit, phys, physMax, defs, err>>
    /\ UNCHANGED <<channelVars, siteVars, b2dVars>>

(* Bitter.gmsh_bcs, lines 156-284 *)
Bitter_gmsh_bcs ==
    /\ prog = "Bitter"
    /\ pc = "ids"
    /\ LET psnames == get_names(bitter)
       IN IF Len(flatten(gmsh_ids)) # Len(psnames)
          THEN /\ err' = "AssertionError"
               /\ pc' = "failed"
               /\ UNCHANGED <<phys, physMax, defs, kstate, diag>>
          ELSE LET s0 == [K |-> [phys |-> phys, max |-> physMax], defs |-> defs]
                   s1 == SolidsLoop(gmsh_ids, isint, psnames, 1, 0, s0)
                   s2 == IF ~bitter.none /\ Len(gmsh_cracks) > 0
                         THEN CracksLoop(gmsh_cracks, 1, s1) ELSE s1
                   bd == bcs_defs(bitter, gmsh_cracks)
                   s3 == BcsLoop(ents, bd, s2)
                   calls == Rep(<<"mut", "mut">>, Len(gmsh_ids))
                            \o (IF ~bitter.none THEN Rep(<<"mut", "mut">>, Len(gmsh_cracks)) ELSE <<>>)
                            \o Calls_BcsLoop(bd)
               IN /\ phys' = s3.K.phys
                  /\ physMax' = s3.K.max
                  /\ defs' = s3.defs
                  /\ kstate' = KRun(kstate, calls)
                  /\ diag' = diag \o Diag_BcsLoop(ents, bd)
                  /\ err' = err
                  /\ pc' = "bcs"
    /\ UNCHANGED <<prog, bitterVars, channelVars, siteVars, b2dVars>>
    /\ UNCHANGED <<runVars, cliVars, bcsVars, meshVars>>

(* input rectangles without a surface descendant in the kernel's map *)
LostRects(b, mm) == {j \in 1..NRect(b) : j <= Len(mm) /\ TagsOfDim(mm[j], 2) = <<>>}

(* cli.main runs again on the same Bitter: gmsh.finalize() ends the session
   (lines 315-326) and gmsh.initialize() opens a fresh one (lines 247-254);
   the names registered by the run that ended are kept for comparison *)
Bitter_rerun ==
    /\ prog = "Bitter"
    /\ pc \in {"bcs", "failed"}
    /\ run < MaxRuns
    /\ run' = run + 1
    /\ prevNames' = [i \in 1..Len(phys) |-> phys[i].name]
    /\ prevLost' = LostRects(bitter, m)
    /\ pc' = "start"
    /\ ents' = {}
    /\ m' = <<>>
    /\ gmsh_ids' = <<>>
    /\ isint' = TRUE
    /\ gmsh_cracks' = <<>>
    /\ phys' = <<>>
    /\ physMax' = 0
    /\ defs' = <<>>
    /\ err' = ""
    /\ kstate' = "clean"
    /\ diag' = <<>>
    /\ UNCHANGED <<prog, bitter, thickslit, channelVars, siteVars, b2dVars, cliVars,
                   bcsVars, meshVars>>

Init == InitBitter

Next ==
    \/ Bitter_gmsh_ids
    \/ Bitter_gmsh_bcs
    \/ Bitter_rerun

Spec == Init /\ [][Next]_vars

(* ------------------------------------------------------------------ *)
(* Properties of the Fragmentation Reconciler (Bitter.gmsh_ids)         *)
(* ------------------------------------------------------------------ *)
(* gmsh_ids has returned from a build with cooling slits *)
Reconciled == prog = "Bitter" /\ pc = "ids" /\ ~bitter.none

(* surface descendants of the j-th input rectangle in the kernel's map *)
SurfDesc(j) == TagsOfDim(m[j], 2)

Degenerate == \E j \in 1..NRect(bitter) : SurfDesc(j) = <<>>

(* C1: when a domain rectangle has no surface descendant after the fragment
   or cut call the build raises, and gmsh_ids never returns an id list that
   is shorter than the list of input rectangles *)
C1_FailsLoudly ==
    Reconciled =>
        /\ (Degenerate => err # "")
        /\ Len(gmsh_ids) >= NRect(bitter)

(* C2: for a non-degenerate fragment / cut call the reconciled list has one
   entry per input rectangle and every entry holds at least one surface tag *)
C2_PositionalParity ==
    (Reconciled /\ ~Degenerate) =>
        /\ Len(gmsh_ids) = NRect(bitter)
        /\ \A i \in 1..Len(gmsh_ids) : Len(gmsh_ids[i]) >= 1

C2_Witness ==
    /\ Reconciled /\ ~Degenerate
    /\ NRect(bitter) >= 2 /\ bitter.nslits >= 1
    /\ Len(gmsh_ids) = NRect(bitter)

(* C3: position i of the reconciled list holds exactly the surface tags of
   the kernel's i-th descendant list, in the reported order, for every input
   rectangle i *)
C3_PositionalOwnership ==
    Reconciled =>
        \A i \in 1..NRect(bitter) : i <= Len(gmsh_ids) /\ gmsh_ids[i] = SurfDesc(i)

(* ------------------------------------------------------------------ *)
(* Properties of the physical groups registered by Bitter.gmsh_bcs      *)
(* ------------------------------------------------------------------ *)
Resolved == prog = "Bitter" /\ pc = "bcs"

GroupsOfDim(d) == {i \in 1..Len(phys) : phys[i].dim = d}

(* groups of dimension d that hold the kernel tag t *)
GroupsHolding(d, t) == {i \in GroupsOfDim(d) : t \in Range(phys[i].tags)}

RECURSIVE TagCount(_, _)
TagCount(P, d) ==
    IF P = <<>> THEN 0
    ELSE (IF Head(P).dim = d THEN Len(Head(P).tags) ELSE 0) + TagCount(Tail(P), d)

(* C4 as stated: the number of surface groups gmsh_bcs registers for the
   solids equals len(get_names(prefix, is2D=True)) *)
C4_GroupCountIsNameCount ==
    Resolved => Cardinality(GroupsOfDim(2)) = Len(get_names(bitter))

(* C4 amended: gmsh_bcs registers one surface group per entry of B_ids; the
   surface tags of these groups together number len(get_names(...)), and the
   number of groups equals the number of names when the entries are plain
   ids (no cooling slits) *)
C4_GroupPerEntry ==
    Resolved =>
        /\ Cardinality(GroupsOfDim(2)) = Len(gmsh_ids)
        /\ TagCount(phys, 2) = Len(get_names(bitter))
        /\ (isint => Cardinality(GroupsOfDim(2)) = Len(get_names(bitter)))

C4_Witness ==
    /\ Resolved /\ ~isint /\ bitter.nslits >= 1
    /\ Cardinality(GroupsOfDim(2)) < Len(get_names(bitter))

(* C8: at the end of a build every surface belongs to exactly one surface
   group and no curve belongs to more than one curve group *)
C8_LabeledOnce ==
    Resolved =>
        /\ \A x \in ents : x.dim = 2 =>
              /\ Cardinality(GroupsHolding(2, x.tag)) = 1
              /\ \A i \in GroupsHolding(2, x.tag) : Count(phys[i].tags, x.tag) = 1
        /\ \A x \in ents : x.dim = 1 => Cardinality(GroupsHolding(1, x.tag)) <= 1

C8_Witness ==
    /\ Resolved /\ bitter.nslits >= 2 /\ NRect(bitter) >= 2 /\ thickslit
    /\ \E x \in ents : x.dim = 1 /\ Cardinality(GroupsHolding(1, x.tag)) = 1

(* ------------------------------------------------------------------ *)
(* The one-turn plate with two zero-width cooling slits                 *)
(* ------------------------------------------------------------------ *)
(* radii [100, 150], axial extent [-50, 50], pitch 100, slits at r = 120 and
   r = 130 *)
OneTurnTwoSlits ==
    /\ bitter = [turns |-> 1, lead |-> FALSE, trail |-> FALSE, none |-> FALSE, nslits |-> 2]
    /\ ~thickslit
    /\ Plate.r = <<100, 150>> /\ Plate.pitch = 100
    /\ <<BitterZ0(bitter), BitterZ1(bitter)>> = <<-50, 50>>
    /\ <<SlitR(1), SlitR(2)>> = <<120, 130>>

(* names of the registered groups, in the order of registration *)
GroupNames == [i \in 1..Len(phys) |-> phys[i].name]

(* C19 as stated: the build of the one-turn plate registers exactly 9
   regions: the conductors B1, B2, B3, the curve groups Slit1 and Slit2 and
   four boundary regions *)
C19_NineRegions ==
    (Resolved /\ OneTurnTwoSlits) =>
        /\ Len(phys) = 9
        /\ {Name1(Tok("B", 1)), Name1(Tok("B", 2)), Name1(Tok("B", 3))} \subseteq Range(GroupNames)

(* C19 amended: the build of the one-turn plate registers exactly 7 regions:
   one conductor B1 holding the three surfaces between the slits, the curve
   groups Slit1 and Slit2, and the boundary regions HP, BP, Slit0, Slit3 *)
C19_SevenRegions ==
    (Resolved /\ OneTurnTwoSlits) =>
        /\ GroupNames = << Name1(Tok("B", 1)), Name1(Tok("Slit", 1)), Name1(Tok("Slit", 2)),
                          Name1(Word("HP")), Name1(Word("BP")),
                          Name1(Tok("Slit", 0)), Name1(Tok("Slit", 3)) >>
        /\ phys[1].dim = 2 /\ Len(phys[1].tags) = 3
        /\ \A i \in 2..Len(phys) : phys[i].dim = 1 /\ phys[i].tags # <<>>
        /\ Len(defs) = 7

C19_Witness ==
    /\ Resolved /\ OneTurnTwoSlits
    /\ Len(phys) = 7
    /\ Cardinality({x \in ents : x.dim = 2}) = 3

(* ------------------------------------------------------------------ *)
(* Running the build again in a fresh kernel session                    *)
(* ------------------------------------------------------------------ *)
(* a later run on the same Bitter has ended and the kernel has treated the
   input rectangles as it did in the run before *)
RanAgain ==
    /\ prog = "Bitter" /\ pc \in {"bcs", "failed"}
    /\ run >= 2
    /\ LostRects(bitter, m) = prevLost

(* C20: a second run on the same Bitter in a fresh kernel session registers
   the same region names in the same order as the run before, whatever tags
   the kernel hands out in either session *)
C20_SameOrderedNames == RanAgain => GroupNames = prevNames

C20_Witness ==
    /\ RanAgain /\ pc = "bcs"
    /\ bitter.nslits >= 1 /\ NRect(bitter) >= 2
    /\ Len(prevNames) >= 6
    /\ GroupNames = prevNames

(* ================================================================== *)
(* Channel aggregation: Insert.gmsh_bcs and mesh.groups.create_physicalbcs *)
(* ================================================================== *)
(* names of the boundary regions on both sides of the channel between two
   helices *)
RegionNames ==
    << Name2(Tok("H", 1), Word("rExt")),
       Name2(Tok("H", 2), Word("rInt")) >>

Curves == 1..MaxCurves

(* the regions: every name with the curve tags its box query returned, in
   ascending order *)
RegionInputs ==
    { [k \in 1..Len(RegionNames) |-> <<RegionNames[k], SortedSeq(f[k])>>] :
        f \in [1..Len(RegionNames) -> SUBSET Curves] }

(* a grouping lists some of the names *)
Groupings ==
    { SelectSeq(RegionNames, LAMBDA n : n \in S) : S \in (SUBSET Range(RegionNames)) \ {{}} }

ChannelInputs == UNION { [1..n -> Groupings] : n \in 0..MaxChannels }

GeomParams == [Solid |-> <<3, "solids">>, Face |-> <<2, "face">>]

ChannelName(i) == Name1(Tok("Channel", i))

(* Insert.gmsh_bcs lines 257-258 and the create_bcs calls of helix_bcs and
   ring_bcs: one curve group per region *)
RECURSIVE RegisterRegions(_, _)
RegisterRegions(R, st) ==
    IF R = <<>> THEN st
    ELSE LET K2 == AddGroup(st.K, 1, Head(R)[2], Head(R)[1])
         IN RegisterRegions(Tail(R), [K |-> K2, defs |-> DictSet(st.defs, Head(R)[1], K2.max)])

(* Insert.gmsh_bcs lines 264-273: the tags of the constituents of a channel *)
RECURSIVE ChannelTags(_, _, _)
ChannelTags(channel, P, d) ==
    IF channel = <<>> THEN <<>>
    ELSE (IF DictHas(d, Head(channel))
          THEN EntitiesForPhysicalGroup(P, 1, DictGet(d, Head(channel)))
          ELSE <<>>)
         \o ChannelTags(Tail(channel), P, d)

(* Insert.gmsh_bcs lines 280-284: the constituents are retired *)
RECURSIVE RetireChannel(_, _)
RetireChannel(channel, st) ==
    IF channel = <<>> THEN st
    ELSE IF DictHas(st.defs, Head(channel))
    THEN RetireChannel(Tail(channel),
            [K |-> [phys |-> RemovePhysicalGroups(st.K.phys, 1, DictGet(st.defs, Head(channel))),
                    max |-> st.K.max],
             defs |-> DictDel(st.defs, Head(channel))])
    ELSE RetireChannel(Tail(channel), st)

(* kernel calls of one pass of the loop at Insert.gmsh_bcs lines 263-284 *)
RECURSIVE Calls_Lookup(_, _)
Calls_Lookup(channel, d) ==
    IF channel = <<>> THEN <<>>
    ELSE (IF DictHas(d, Head(channel)) THEN <<"table">> ELSE <<>>) \o Calls_Lookup(Tail(channel), d)

RECURSIVE Calls_Retire(_, _)
Calls_Retire(channel, d) ==
    IF channel = <<>> THEN <<>>
    ELSE IF DictHas(d, Head(channel))
    THEN <<"mut">> \o Calls_Retire(Tail(channel), DictDel(d, Head(channel)))
    ELSE Calls_Retire(Tail(channel), d)

(* mesh/groups.py lines 159-163: tags += bctags[bc]; del bctags[bc] *)
RECURSIVE GatherTags(_, _)
GatherTags(channel, st) ==
    IF channel = <<>> THEN st
    ELSE IF DictHas(st.bctags, Head(channel))
    THEN GatherTags(Tail(channel),
            [tags |-> st.tags \o DictGet(st.bctags, Head(channel)),
             bctags |-> DictDel(st.bctags, Head(channel))])
    ELSE GatherTags(Tail(channel), st)

(* mesh/groups.py lines 175-179: one physical group per entry of bctags *)
RECURSIVE PhysicalBcs(_, _)
PhysicalBcs(d, K) ==
    IF d = <<>> THEN K
    ELSE PhysicalBcs(Tail(d), AddGroup(K, GeomParams.Face[1], Head(d)[2], Head(d)[1]))

InitChannels ==
    /\ prog \in {"Insert", "create_physicalbcs"}
    /\ pc = "start"
    /\ regions \in RegionInputs
    /\ Channels \in ChannelInputs
    /\ ci = 0
    /\ bctags = IF prog = "create_physicalbcs" THEN regions ELSE <<>>
    /\ EmptyKernel
    /\ FirstRun
    /\ NoBitter
    /\ NoSite
    /\ NoBitter2D
    /\ NoCli
    /\ NoBcs
    /\ NoMesh

(* Insert.gmsh_bcs lines 195-259: the regions are resolved and registered,
   then the model is synchronized *)
Insert_regions ==
    /\ UNCHANGED <<diag, runVars, cliVars, bcsVars, meshVars>>
    /\ prog = "Insert"
    /\ pc = "start"
    /\ LET s1 == RegisterRegions(regions, [K |-> [phys |-> phys, max |-> physMax], defs |-> defs])
       IN /\ phys' = s1.K.phys
          /\ physMax' = s1.K.max
          /\ defs' = s1.defs
    /\ kstate' = KRun(kstate, Rep(<<"sync", "query", "mut", "mut">>, Len(regions)) \o <<"sync">>)
    /\ pc' = IF Channels = <<>> THEN "done" ELSE "channels"
    /\ UNCHANGED <<prog, err, channelVars, bitterVars, siteVars, b2dVars>>

(* Insert.gmsh_bcs lines 263-284: one pass of the loop over Channels; the
   function returns after the last pass *)
Insert_channel ==
    /\ UNCHANGED <<diag, runVars, cliVars, bcsVars, meshVars>>
    /\ prog = "Insert"
    /\ pc = "channels"
    /\ ci < Len(Channels)
    /\ LET channel == Channels[ci + 1]
           tags == ChannelTags(channel, phys, defs)
           K1 == AddGroup([phys |-> phys, max |-> physMax], 1, tags, ChannelName(ci))
           s1 == [K |-> K1, defs |-> DictSet(defs, ChannelName(ci), K1.max)]
           s2 == RetireChannel(channel, s1)
       IN /\ phys' = s2.K.phys
          /\ physMax' = s2.K.max
          /\ defs' = s2.defs
          /\ kstate' = KRun(kstate, Calls_Lookup(channel, defs) \o <<"mut", "mut">>
                                     \o Calls_Retire(channel, s1.defs))
    /\ ci' = ci + 1
    /\ pc' = IF ci + 1 = Len(Channels) THEN "done" ELSE "channels"
    /\ UNCHANGED <<prog, err, regions, Channels, bctags, bitterVars, siteVars, b2dVars>>

(* create_physicalbcs lines 157-166 (groupCoolingChannels, Channels a list):
   one pass of the loop over Channels *)
Groups_channel ==
    /\ UNCHANGED <<diag, runVars, cliVars, bcsVars, meshVars>>
    /\ prog = "create_physicalbcs"
    /\ pc \in {"start", "channels"}
    /\ ci < Len(Channels)
    /\ LET g == GatherTags(Channels[ci + 1], [tags |-> <<>>, bctags |-> bctags])
       IN bctags' = IF g.tags # <<>> THEN DictSet(g.bctags, ChannelName(ci), g.tags)
                    ELSE g.bctags
    /\ ci' = ci + 1
    /\ pc' = "channels"
    /\ UNCHANGED <<prog, phys, physMax, defs, err, kstate, regions, Channels,
                   bitterVars, siteVars, b2dVars>>

(* create_physicalbcs lines 175-179: the physical groups, once the loop is over *)
Groups_physical ==
    /\ UNCHANGED <<diag, runVars, cliVars, bcsVars, meshVars>>
    /\ prog = "create_physicalbcs"
    /\ pc \in {"start", "channels"}
    /\ ci = Len(Channels)
    /\ LET K1 == PhysicalBcs(bctags, [phys |-> phys, max |-> physMax])
       IN /\ phys' = K1.phys
          /\ physMax' = K1.max
    /\ kstate' = KRun(kstate, Rep(<<"mut", "mut">>, Len(bctags)))
    /\ pc' = "done"
    /\ UNCHANGED <<prog, defs, err, channelVars, bitterVars, siteVars, b2dVars>>

NextChannels ==
    \/ Insert_regions
    \/ Insert_channel
    \/ Groups_channel
    \/ Groups_physical

SpecChannels == InitChannels /\ [][NextChannels]_vars

(* ------------------------------------------------------------------ *)
(* Properties of the Channel Aggregator                                 *)
(* ------------------------------------------------------------------ *)
Aggregating == prog \in {"Insert", "create_physicalbcs"} /\ pc \in {"channels", "done"}

(* the name -> id map of Insert.gmsh_bcs, the bctags of create_physicalbcs *)
Registry == IF prog = "Insert" THEN defs ELSE bctags

GroupsNamed(n) == {i \in 1..Len(phys) : phys[i].name = n}

(* the channel of the j-th grouping exists *)
HasChannel(j) ==
    IF prog = "Insert" THEN GroupsNamed(ChannelName(j - 1)) # {}
    ELSE DictHas(bctags, ChannelName(j - 1))

(* its list of entities *)
ChannelEntities(j) ==
    IF prog = "Insert"
    THEN phys[CHOOSE i \in GroupsNamed(ChannelName(j - 1)) : TRUE].tags
    ELSE DictGet(bctags, ChannelName(j - 1))

(* entities of the constituents of the j-th grouping, as resolved before
   the aggregation *)
ConstituentEntities(j) == UNION {Range(DictGet(regions, bc)) : bc \in Range(Channels[j])}

(* C5: an entity shared by two constituents appears once in the channel: no
   channel holds an entity twice, and the first channel holds as many
   entities as the union of its constituents, |A| + |B| - |A \cap B| *)
C5_ChannelDedup ==
    Aggregating =>
        \A j \in 1..ci : HasChannel(j) =>
            /\ Len(ChannelEntities(j)) = Cardinality(Range(ChannelEntities(j)))
            /\ (j = 1 => Len(ChannelEntities(j)) = Cardinality(ConstituentEntities(j)))

(* C6: once a grouping has been aggregated none of its constituent names is
   left in the kernel's physical-group table nor in the name -> id map *)
C6_ConstituentsRetired ==
    Aggregating =>
        \A j \in 1..ci : \A bc \in Range(Channels[j]) :
            /\ ~DictHas(Registry, bc)
            /\ GroupsNamed(bc) = {}

C6_Witness ==
    /\ prog = "Insert"
    /\ pc = "done"
    /\ ci >= 2
    /\ Len(Channels[1]) >= 2
    /\ GroupsNamed(ChannelName(0)) # {}
    /\ DictHas(defs, ChannelName(1))
    /\ Len(phys) < Len(regions) + ci

(* C7: while groupings remain to be aggregated no constituent has been
   removed: every name listed in a remaining grouping is still registered *)
C7_RetiredAfterLast ==
    (Aggregating /\ ci < Len(Channels)) =>
        \A j \in (ci + 1)..Len(Channels) : \A bc \in Range(Channels[j]) :
            DictHas(Registry, bc)

(* ================================================================== *)
(* Composite assemblies: MSite.py and axi/Bitters.py                    *)
(* ================================================================== *)
(* the yaml files of the sub-magnets and the number of surfaces each builds *)
SubMagnets == {"M1", "M2"}
NSurf(f) == IF f = "M1" THEN 1 ELSE 2

FileLists == UNION { [1..n -> SubMagnets] : n \in 1..MaxMagnets }

(* one value of the dict MSite.magnets: a file name or a list of file names *)
SiteEntries ==
    { [kind |-> "str", files |-> <<f>>] : f \in SubMagnets }
    \cup { [kind |-> "list", files |-> fl] : fl \in FileLists }

(* MSite.magnets: a file name, or a dict; items are its values in key order *)
MSiteInputs ==
    { [kind |-> "str", items |-> << [kind |-> "str", files |-> <<f>>] >>] : f \in SubMagnets }
    \cup { [kind |-> "dict", items |-> it] :
              it \in UNION { [1..n -> SiteEntries] : n \in 1..MaxMagnets } }

(* Bitters.magnets: a list of Bitter objects *)
BittersInputs ==
    { [kind |-> "list", items |-> [k \in 1..Len(fl) |-> [kind |-> "str", files |-> <<fl[k]>>]]] :
        fl \in FileLists \cup {<<>>} }

(* the sub-magnets in declaration order *)
RECURSIVE Declared(_)
Declared(items) == IF items = <<>> THEN <<>> ELSE Head(items).files \o Declared(Tail(items))

(* the key of the i-th entry of MSite.magnets *)
SiteKey(i) == Tok("K", i)

(* MyMagnet.gmsh_ids(Magnet, ...): the id tuple of a sub-magnet built when
   the kernel has already handed out the surface tags 1..base *)
magnet_ids(f, base) ==
    [magnet |-> f, ids |-> [t \in 1..NSurf(f) |-> base + t], cracks |-> <<>>]

(* MSite.gmsh_ids lines 41-63: one id tuple per sub-magnet *)
RECURSIVE SiteIds(_, _)
SiteIds(fl, base) ==
    IF fl = <<>> THEN <<>>
    ELSE <<magnet_ids(Head(fl), base)>> \o SiteIds(Tail(fl), base + NSurf(Head(fl)))

(* what a sub-magnet's gmsh_bcs is handed: one id tuple, or the whole list *)
OneTuple(t) == [isList |-> FALSE, items |-> <<t>>]
WholeList(l) == [isList |-> TRUE, items |-> l]

(* MSite.gmsh_bcs lines 152-162: the files of a list entry *)
RECURSIVE LoadList(_, _, _, _, _)
LoadList(key, files, G, num, acc) ==
    IF files = <<>> THEN acc
    ELSE LoadList(key, Tail(files), G, num + 1,
            Append(acc, [magnet |-> Head(files),
                         name |-> Name2(key, Word(Head(files))),
                         ids |-> OneTuple(G[num + 1])]))

(* MSite.gmsh_bcs lines 139-162: the loop over the keys of MSite.magnets *)
RECURSIVE LoadDict(_, _, _, _, _)
LoadDict(items, i, G, num, acc) ==
    IF i > Len(items) THEN acc
    ELSE IF items[i].kind = "str"
    THEN LoadDict(items, i + 1, G, num + 1,
            Append(acc, [magnet |-> items[i].files[1],
                         name |-> Name1(SiteKey(i)),
                         ids |-> OneTuple(G[num + 1])]))
    ELSE LoadDict(items, i + 1, G, num + Len(items[i].files),
            LoadList(SiteKey(i), items[i].files, G, num, acc))

(* axi/Bitters.gmsh_bcs lines 108-116 *)
RECURSIVE LoadBitters(_, _, _, _, _)
LoadBitters(fl, G, C, num, acc) ==
    IF fl = <<>> THEN acc
    ELSE LoadBitters(Tail(fl), G, C, num + 1,
            Append(acc, [magnet |-> Head(fl),
                         name |-> Name1(Word(Head(fl))),
                         ids |-> OneTuple([magnet |-> G[num + 1].magnet,
                                           ids |-> G[num + 1].ids,
                                           cracks |-> C[num + 1]])]))

(* the physical groups of the sub-magnets whose gmsh_bcs ran: one surface
   group per sub-magnet *)
RECURSIVE SiteDefs(_, _)
SiteDefs(L, st) ==
    IF L = <<>> THEN st
    ELSE LET K2 == AddGroup(st.K, 2, Head(L).ids.items[1].ids, Head(L).name)
         IN SiteDefs(Tail(L), [K |-> K2, defs |-> DictSet(st.defs, Head(L).name, K2.max)])

InitSite ==
    /\ \/ prog = "MSite" /\ magnets \in MSiteInputs
       \/ prog = "Bitters" /\ magnets \in BittersInputs
    /\ pc = "start"
    /\ site_ids = <<>>
    /\ crack_ids = <<>>
    /\ loaded = <<>>
    /\ EmptyKernel
    /\ FirstRun
    /\ NoBitter
    /\ NoChannels
    /\ NoBitter2D
    /\ NoCli
    /\ NoBcs
    /\ NoMesh

(* MSite.gmsh_ids, lines 25-110 (AirData = ()) *)
MSite_gmsh_ids ==
    /\ UNCHANGED <<diag, runVars, cliVars, bcsVars, meshVars>>
    /\ prog = "MSite"
    /\ pc = "start"
    /\ site_ids' = SiteIds(Declared(magnets.items), 0)
    /\ kstate' = KRun(kstate, Rep(<<"mut", "sync">>, Len(Declared(magnets.items))) \o <<"sync">>)
    /\ pc' = "ids"
    /\ UNCHANGED <<prog, phys, physMax, defs, err, magnets, crack_ids, loaded,
                   bitterVars, channelVars, b2dVars>>

(* MSite.gmsh_bcs, lines 113-215 (Air_data = ()): a sub-magnet's gmsh_bcs
   unpacks the tuple it is handed and raises ValueError on a list *)
MSite_gmsh_bcs ==
    /\ UNCHANGED <<diag, runVars, cliVars, bcsVars, meshVars>>
    /\ prog = "MSite"
    /\ pc = "ids"
    /\ IF magnets.kind = "str"
       THEN /\ loaded' = << [magnet |-> magnets.items[1].files[1],
                             name |-> <<>>,
                             ids |-> WholeList(site_ids)] >>
            /\ err' = "ValueError"
            /\ pc' = "failed"
            /\ UNCHANGED <<phys, physMax, defs, kstate>>
       ELSE LET L == LoadDict(magnets.items, 1, site_ids, 0, <<>>)
                s1 == SiteDefs(L, [K |-> [phys |-> phys, max |-> physMax], defs |-> defs])
            IN /\ loaded' = L
               /\ phys' = s1.K.phys
               /\ physMax' = s1.K.max
               /\ defs' = s1.defs
               /\ kstate' = KRun(kstate, Rep(<<"mut", "mut">>, Len(L)))
               /\ err' = err
               /\ pc' = "bcs"
    /\ UNCHANGED <<prog, magnets, site_ids, crack_ids, bitterVars, channelVars, b2dVars>>

(* axi/Bitters.gmsh_ids, lines 29-82 (AirData = ()) *)
Bitters_gmsh_ids ==
    /\ UNCHANGED <<diag, runVars, cliVars, bcsVars, meshVars>>
    /\ prog = "Bitters"
    /\ pc = "start"
    /\ LET G == SiteIds(Declared(magnets.items), 0)
       IN /\ site_ids' = G
          /\ crack_ids' = [k \in 1..Len(G) |-> G[k].cracks]
    /\ kstate' = KRun(kstate, Rep(<<"mut", "sync">>, Len(Declared(magnets.items))))
    /\ pc' = "ids"
    /\ UNCHANGED <<prog, phys, physMax, defs, err, magnets, loaded,
                   bitterVars, channelVars, b2dVars>>

(* axi/Bitters.gmsh_bcs, lines 85-142 (Air_data = ()) *)
Bitters_gmsh_bcs ==
    /\ UNCHANGED <<diag, runVars, cliVars, bcsVars, meshVars>>
    /\ prog = "Bitters"
    /\ pc = "ids"
    /\ LET L == LoadBitters(Declared(magnets.items), site_ids, crack_ids, 0, <<>>)
           s1 == SiteDefs(L, [K |-> [phys |-> phys, max |-> physMax], defs |-> defs])
       IN /\ loaded' = L
          /\ phys' = s1.K.phys
          /\ physMax' = s1.K.max
          /\ defs' = s1.defs
          /\ kstate' = KRun(kstate, Rep(<<"mut", "mut">>, Len(L)))
    /\ pc' = "bcs"
    /\ UNCHANGED <<prog, err, magnets, site_ids, crack_ids, bitterVars, channelVars, b2dVars>>

NextSite ==
    \/ MSite_gmsh_ids
    \/ MSite_gmsh_bcs
    \/ Bitters_gmsh_ids
    \/ Bitters_gmsh_bcs

SpecSite == InitSite /\ [][NextSite]_vars

(* ------------------------------------------------------------------ *)
(* Properties of composite assemblies                                   *)
(* ------------------------------------------------------------------ *)
SiteResolved == prog \in {"MSite", "Bitters"} /\ pc \in {"bcs", "failed"}

(* C10: geometry creation and boundary resolution each handle every
   sub-magnet once, in declaration order, and the k-th id tuple created is
   the one handed to the k-th sub-magnet's boundary resolution *)
C10_TuplePerSubMagnet ==
    SiteResolved =>
        LET D == Declared(magnets.items)
        IN /\ Len(site_ids) = Len(D)
           /\ Len(loaded) = Len(D)
           /\ \A k \in 1..Len(D) :
                /\ site_ids[k].magnet = D[k]
                /\ loaded[k].magnet = D[k]
                /\ loaded[k].ids = OneTuple(site_ids[k])

(* ================================================================== *)
(* Bitter2D.py: the sector of a Bitter plate with its holes             *)
(* ================================================================== *)
(* a shape is a circle (0) or a polygon of 4 points *)
Shapes == {0, 4}

(* one entry of Bitter.coolingslits: its shape, the number of copies that
   fall in the sector, angle # 0, slit.r = tierod.r *)
SlitRows(withTierod) ==
    [shape : Shapes, copies : 0..MaxCopies, rotated : BOOLEAN,
     attierod : IF withTierod THEN BOOLEAN ELSE {FALSE}]

(* the Bitter plates with tierod t: its shape, -1 for None *)
Bitter2DInputs(t) ==
    { [tierod |-> t, slits |-> sl] :
        sl \in UNION { [1..n -> SlitRows(t # -1)] : n \in 0..MaxSlits } }

(* lines 119 and 139: the first slit of the row coincides with the tierod *)
SkipSlit(b, row) == b.tierod # -1 /\ row.attierod /\ ~row.rotated

(* lines 86-137: the surface tags of the holes; the sector is surface 1 and
   next is the tag of the next surface the kernel creates *)
RECURSIVE HolesOf(_, _, _, _)
HolesOf(b, i, next, acc) ==
    IF i > Len(b.slits) THEN acc
    ELSE LET row == b.slits[i]
             first == IF SkipSlit(b, row) THEN <<>> ELSE <<next>>
             copies == [n \in 1..row.copies |-> next + n]
         IN HolesOf(b, i + 1, next + 1 + row.copies, acc \o first \o copies)

Holes2D(b) ==
    IF b.tierod # -1 THEN HolesOf(b, 1, 3, <<2>>) ELSE HolesOf(b, 1, 2, <<>>)

(* create_shape, lines 21-40 *)
Calls_create_shape(np) ==
    IF np = 0 THEN <<"mut", "mut">> ELSE Rep(<<"mut">>, np + np + 1)

(* lines 97-142: one entry of coolingslits *)
Calls_slit(b, row) ==
    Calls_create_shape(row.shape) \o <<"mut">>
    \o (IF row.rotated THEN <<"mut">> ELSE <<>>)
    \o Rep(<<"mut", "mut">>, row.copies)
    \o (IF SkipSlit(b, row) THEN <<"mut", "sync">> ELSE <<>>)

RECURSIVE Calls_slits(_, _)
Calls_slits(b, i) ==
    IF i > Len(b.slits) THEN <<>> ELSE Calls_slit(b, b.slits[i]) \o Calls_slits(b, i + 1)

(* create_bcgroup, lines 170-187: getBoundingBox, getEntitiesInBoundingBox,
   addPhysicalGroup, setPhysicalName *)
Calls_create_bcgroup == <<"query", "query", "mut", "mut">>

(* kernel calls of gmsh2D_ids in program order *)
Calls_gmsh2D_ids(b) ==
    LET h == Holes2D(b)
    IN Rep(<<"mut">>, 11)
       \o (IF b.tierod # -1 THEN Calls_create_shape(b.tierod) \o <<"mut">> ELSE <<>>)
       \o Calls_slits(b, 1)
       \o (IF h # <<>> THEN <<"mut", "sync", "mut", "mut">> ELSE <<"sync", "mut", "mut">>)
       \o <<"mut">>
       \o (IF h # <<>> /\ b.tierod # -1 THEN Calls_create_bcgroup ELSE <<>>)
       \o (IF Len(h) > 1 THEN Rep(Calls_create_bcgroup, Len(h) - 1) ELSE <<>>)
       \o Rep(<<"mut">>, Len(h)) \o <<"sync">>
       \o Rep(<<"query">>, 4) \o <<"table">>
       \o Rep(<<"mut">>, 8)

InitBitter2D ==
    /\ prog = "Bitter2D"
    /\ pc = "start"
    /\ \E t \in Shapes \cup {-1} : b2d \in Bitter2DInputs(t)
    /\ holes = <<>>
    /\ EmptyKernel
    /\ FirstRun
    /\ NoBitter
    /\ NoChannels
    /\ NoSite
    /\ NoCli
    /\ NoBcs
    /\ NoMesh

(* Bitter2D.gmsh2D_ids, lines 43-323; its physical groups hold the curves
   the kernel finds and are not part of the state *)
Bitter2D_gmsh2D_ids ==
    /\ UNCHANGED <<diag, runVars, cliVars, bcsVars, meshVars>>
    /\ prog = "Bitter2D"
    /\ pc = "start"
    /\ holes' = Holes2D(b2d)
    /\ kstate' = KRun(kstate, Calls_gmsh2D_ids(b2d))
    /\ pc' = "ids"
    /\ UNCHANGED <<prog, phys, physMax, defs, err, b2d, bitterVars, channelVars, siteVars>>

NextBitter2D == Bitter2D_gmsh2D_ids

SpecBitter2D == InitBitter2D /\ [][NextBitter2D]_vars

(* ================================================================== *)
(* cli.main: the pipeline from the yaml file to the mesh file, and the  *)
(* library functions MSite.gmsh_ids and m3d.MeshData.createMeshData     *)
(* ================================================================== *)
(* the dispatch tables: cli.py lines 256-265, MSite.py lines 18-22,
   Bitters.py line 12 *)
CliTable == {"Helix", "Insert", "Bitter", "Supra", "Screen", "Supras", "Bitters", "MSite"}
MSiteTable == {"Insert", "Bitter", "Supra"}
BittersTable == {"Bitter"}

(* the kinds of the objects drawn as inputs; Ring is a python_magnetgeo kind
   that none of the tables lists *)
SimpleKinds == {"Bitter", "Helix", "Ring"}
CompositeKinds == {"Bitters", "MSite"}

(* what getObject does with the yaml file: it returns the object, raises
   ValidationError, or raises another exception *)
Loads == {"ok", "ValidationError", "FileNotFoundError"}

SubLists == UNION { [1..n -> SimpleKinds] : n \in 0..MaxMagnets }

ObjectInputs ==
    { [kind |-> k, load |-> l, subs |-> <<>>] : k \in SimpleKinds, l \in Loads }
    \cup { [kind |-> k, load |-> l, subs |-> sl] :
              k \in CompositeKinds, l \in Loads, sl \in SubLists }

ArgsInputs == [thickslit : BOOLEAN, mesh : BOOLEAN]

LcFiles == {"missing", "valid", "corrupt"}

(* the module of the kind defines gmsh_box *)
HasBox(kind) == kind \in {"Bitter", "Insert", "Supras"}

(* number of positional parameters of the module's gmsh_ids and gmsh_bcs *)
IdsParams(kind) == IF kind \in {"Bitter", "Insert", "Supras", "Bitters"} THEN 4 ELSE 3
BcsParams(kind) ==
    IF kind = "Bitters" THEN 6
    ELSE IF kind \in {"Bitter", "Insert", "Supras"} THEN 5
    ELSE IF kind = "Screen" THEN 3
    ELSE 4

(* kernel calls of the stages, as far as their order matters *)
SessionCalls ==
    <<"initialize", "option.setNumber", "option.setNumber", "model.add", "logger.start">>
IdsCalls == <<"occ.addRectangle", "occ.synchronize">>
BcsCalls == <<"addPhysicalGroup", "setPhysicalName">>
MshCalls == <<"mesh.field.add", "mesh.field.setAsBackgroundMesh", "mesh.generate">>
WriteCalls == <<"option.setNumber", "write">>
FinalCalls == <<"logger.get", "logger.stop", "finalize">>

(* position of the first sub-magnet whose kind the table does not list, 0
   when there is none *)
FirstUnsupported(table, subs) ==
    LET U == {i \in 1..Len(subs) : subs[i] \notin table}
    IN IF U = {} THEN 0 ELSE CHOOSE i \in U : \A j \in U : i <= j

(* the loop over the sub-magnets in MSite.gmsh_ids (lines 33-63) and
   Bitters.gmsh_ids (lines 27-49): magnet_ids looks the kind up, then builds
   the sub-magnet; the loop ends at the first kind the table does not list *)
CompositeIds(table, subs) ==
    LET u == FirstUnsupported(table, subs)
    IN IF u = 0
       THEN [klog |-> Rep(IdsCalls, Len(subs)) \o <<"occ.synchronize">>, err |-> ""]
       ELSE [klog |-> Rep(IdsCalls, u - 1), err |-> "KeyError"]

(* variant: a file that does not parse is replaced by the defaults *)
createMeshAxiData_Regenerate(f) ==
    IF f = "valid" THEN [now |-> f, err |-> ""] ELSE [now |-> "default", err |-> ""]

(* variant: dump writes the file whether or not it exists *)
MeshAxiData_dump_Overwrite(f) == [now |-> "default", err |-> ""]

(* axi/MeshAxiData.py MeshAxiData.dump, lines 263-277: FileExistsError when
   the path exists (a file that does not parse exists too), otherwise the
   object is written *)
MeshAxiData_dump(f) ==
    IF f # "missing" THEN [now |-> f, err |-> "FileExistsError"]
    ELSE [now |-> "default", err |-> ""]

(* m3d/MeshData.py MeshData.dump, lines 278-295 *)
MeshData_dump(f) ==
    IF f # "missing" THEN [now |-> f, err |-> "FileExistsError"]
    ELSE [now |-> "default", err |-> ""]

(* axi/MeshAxiData.createMeshAxiData, lines 281-317: the file is loaded; when
   it is missing the defaults are computed and dumped; when it does not
   parse RuntimeError is raised *)
createMeshAxiData(f) ==
    IF f = "valid" THEN [now |-> f, err |-> ""]
    ELSE IF f = "missing" THEN MeshAxiData_dump(f)
    ELSE [now |-> f, err |-> "RuntimeError"]

(* m3d/MeshData.createMeshData, lines 298-326 *)
createMeshData(f) ==
    IF f = "valid" THEN [now |-> f, err |-> ""]
    ELSE IF f = "missing" THEN MeshData_dump(f)
    ELSE [now |-> f, err |-> "RuntimeError"]

InitCli ==
    /\ \/ /\ prog = "cli"
          /\ Object \in ObjectInputs
          /\ args \in ArgsInputs
       \/ /\ prog = "MSite.gmsh_ids"
          /\ Object \in {o \in ObjectInputs : o.kind = "MSite" /\ o.load = "ok"}
          /\ args = [thickslit |-> FALSE, mesh |-> FALSE]
       \/ /\ prog = "createMeshData"
          /\ Object = [kind |-> "Bitter", load |-> "ok", subs |-> <<>>]
          /\ args = [thickslit |-> FALSE, mesh |-> TRUE]
       \/ /\ prog \in {"MeshAxiData.dump", "MeshData.dump"}
          /\ Object = [kind |-> "Bitter", load |-> "ok", subs |-> <<>>]
          /\ args = [thickslit |-> FALSE, mesh |-> TRUE]
    /\ pc = "start"
    /\ \E f \in LcFiles : lcfile = [was |-> f, now |-> f]
    /\ klog = <<>>
    /\ stages = <<>>
    /\ meshfile = FALSE
    /\ fatal = ""
    /\ EmptyKernel
    /\ FirstRun
    /\ NoBitter
    /\ NoChannels
    /\ NoSite
    /\ NoBitter2D
    /\ NoBcs
    /\ NoMesh

(* what no step of cli.main changes in this model *)
cliFrame == <<prog, Object, args, bitterVars, channelVars, siteVars, b2dVars, runVars,
              bcsVars, meshVars, phys, physMax, defs, kstate, diag>>

(* an exception leaves main: the stage named detected it *)
Raise(e, stage) ==
    /\ err' = e
    /\ fatal' = IF fatal = "" THEN stage ELSE fatal
    /\ pc' = "failed"

(* lines 241-245: getObject; a ValidationError is caught and printed, and
   main goes on without Object *)
Cli_getObject ==
    /\ prog = "cli"
    /\ pc = "start"
    /\ stages' = Append(stages, "getObject")
    /\ IF Object.load = "ok"
       THEN pc' = "loaded" /\ UNCHANGED <<err, fatal>>
       ELSE IF Object.load = "ValidationError"
       THEN pc' = "loaded" /\ fatal' = "getObject" /\ UNCHANGED err
       ELSE Raise(Object.load, "getObject")
    /\ UNCHANGED <<klog, lcfile, meshfile, cliFrame>>

(* lines 247-254: the kernel session *)
Cli_initialize ==
    /\ prog = "cli"
    /\ pc = "loaded"
    /\ stages' = Append(stages, "initialize")
    /\ klog' = klog \o SessionCalls
    /\ pc' = "session"
    /\ UNCHANGED <<err, fatal, lcfile, meshfile, cliFrame>>

(* lines 256-268: the module of the object's kind *)
Cli_dispatch ==
    /\ prog = "cli"
    /\ pc = "session"
    /\ stages' = Append(stages, "dispatch")
    /\ IF Object.load # "ok"
       THEN Raise("UnboundLocalError", "dispatch")
       ELSE IF Object.kind \notin CliTable
       THEN Raise("KeyError", "dispatch")
       ELSE pc' = (IF args.thickslit THEN "box" ELSE "ids") /\ UNCHANGED <<err, fatal>>
    /\ UNCHANGED <<klog, lcfile, meshfile, cliFrame>>

(* lines 271-274 *)
Cli_gmsh_box ==
    /\ prog = "cli"
    /\ pc = "box"
    /\ stages' = Append(stages, "gmsh_box")
    /\ IF ~HasBox(Object.kind)
       THEN Raise("AttributeError", "gmsh_box")
       ELSE pc' = "ids" /\ UNCHANGED <<err, fatal>>
    /\ UNCHANGED <<klog, lcfile, meshfile, cliFrame>>

(* line 278: gmsh_ids is called with four arguments; a composite builds its
   sub-magnets in order, a simple magnet is built or its geometry fails *)
Cli_gmsh_ids ==
    /\ prog = "cli"
    /\ pc = "ids"
    /\ stages' = Append(stages, "gmsh_ids")
    /\ IF IdsParams(Object.kind) < 4
       THEN Raise("TypeError", "gmsh_ids") /\ UNCHANGED klog
       ELSE IF Object.kind \in CompositeKinds
       THEN LET c == CompositeIds(BittersTable, Object.subs)
            IN /\ klog' = klog \o c.klog
               /\ IF c.err # "" THEN Raise(c.err, "gmsh_ids")
                  ELSE pc' = "bcs" /\ UNCHANGED <<err, fatal>>
       ELSE \E ok \in BOOLEAN :
               IF ok
               THEN klog' = klog \o IdsCalls /\ pc' = "bcs" /\ UNCHANGED <<err, fatal>>
               ELSE klog' = Append(klog, Head(IdsCalls)) /\ Raise("Exception", "gmsh_ids")
    /\ UNCHANGED <<lcfile, meshfile, cliFrame>>

(* line 282: gmsh_bcs is called with five arguments; Bitters.gmsh_bcs hands
   six to the gmsh_bcs of its sub-magnets (Bitters.py line 132); Bitter.gmsh_bcs
   asserts that the ids are reconciled with the names *)
Cli_gmsh_bcs ==
    /\ prog = "cli"
    /\ pc = "bcs"
    /\ stages' = Append(stages, "gmsh_bcs")
    /\ IF BcsParams(Object.kind) < 5 \/ (Object.kind = "Bitters" /\ Object.subs # <<>>)
       THEN Raise("TypeError", "gmsh_bcs") /\ UNCHANGED klog
       ELSE \E ok \in BOOLEAN :
               IF ok
               THEN /\ klog' = klog \o BcsCalls
                    /\ pc' = (IF args.mesh THEN "lc" ELSE "end")
                    /\ UNCHANGED <<err, fatal>>
               ELSE Raise("AssertionError", "gmsh_bcs") /\ UNCHANGED klog
    /\ UNCHANGED <<lcfile, meshfile, cliFrame>>

(* lines 291-303 *)
Cli_createMeshAxiData ==
    /\ prog = "cli"
    /\ pc = "lc"
    /\ stages' = Append(stages, "createMeshAxiData")
    /\ LET c == createMeshAxiData(lcfile.now)
       IN /\ lcfile' = [lcfile EXCEPT !.now = c.now]
          /\ IF c.err # "" THEN Raise(c.err, "createMeshAxiData")
             ELSE pc' = "msh" /\ UNCHANGED <<err, fatal>>
    /\ UNCHANGED <<klog, meshfile, cliFrame>>

(* line 305: gmsh_msh reads meshdata.surfhypoths (mesh/axi.py line 79), an
   attribute the class of axi/MeshAxiData.py does not set *)
Cli_gmsh_msh ==
    /\ prog = "cli"
    /\ pc = "msh"
    /\ stages' = Append(stages, "gmsh_msh")
    /\ \E ok \in BOOLEAN :
          IF ok
          THEN /\ klog' = klog \o MshCalls
               /\ pc' = (IF args.thickslit THEN "write" ELSE "cracks")
               /\ UNCHANGED <<err, fatal>>
          ELSE Raise("AttributeError", "gmsh_msh") /\ UNCHANGED klog
    /\ UNCHANGED <<lcfile, meshfile, cliFrame>>

(* lines 306-307 *)
Cli_gmsh_cracks ==
    /\ prog = "cli"
    /\ pc = "cracks"
    /\ stages' = Append(stages, "gmsh_cracks")
    /\ klog' = Append(klog, "getPhysicalGroups")
    /\ pc' = "write"
    /\ UNCHANGED <<err, fatal, lcfile, meshfile, cliFrame>>

(* lines 309-313 *)
Cli_write ==
    /\ prog = "cli"
    /\ pc = "write"
    /\ stages' = Append(stages, "write")
    /\ klog' = klog \o WriteCalls
    /\ meshfile' = TRUE
    /\ pc' = "end"
    /\ UNCHANGED <<err, fatal, lcfile, cliFrame>>

(* lines 315-326 *)
Cli_finalize ==
    /\ prog = "cli"
    /\ pc = "end"
    /\ stages' = Append(stages, "finalize")
    /\ klog' = klog \o FinalCalls
    /\ pc' = "done"
    /\ UNCHANGED <<err, fatal, lcfile, meshfile, cliFrame>>

(* MSite.gmsh_ids, lines 25-110 (AirData = ()), called on a composite whose
   sub-magnets may be of any kind; klog holds the calls it issues *)
Lib_MSite_gmsh_ids ==
    /\ prog = "MSite.gmsh_ids"
    /\ pc = "start"
    /\ stages' = Append(stages, "gmsh_ids")
    /\ LET c == CompositeIds(MSiteTable, Object.subs)
       IN /\ klog' = klog \o c.klog
          /\ IF c.err # "" THEN Raise(c.err, "gmsh_ids")
             ELSE pc' = "done" /\ UNCHANGED <<err, fatal>>
    /\ UNCHANGED <<lcfile, meshfile, cliFrame>>

(* m3d/MeshData.createMeshData called on the persisted file *)
Lib_createMeshData ==
    /\ prog = "createMeshData"
    /\ pc = "start"
    /\ stages' = Append(stages, "createMeshData")
    /\ LET c == createMeshData(lcfile.now)
       IN /\ lcfile' = [lcfile EXCEPT !.now = c.now]
          /\ IF c.err # "" THEN Raise(c.err, "createMeshData")
             ELSE pc' = "done" /\ UNCHANGED <<err, fatal>>
    /\ UNCHANGED <<klog, meshfile, cliFrame>>

(* dump() called on a mesh-size object whose file is in any state *)
Lib_dump ==
    /\ prog \in {"MeshAxiData.dump", "MeshData.dump"}
    /\ pc = "start"
    /\ stages' = Append(stages, "dump")
    /\ LET c == IF prog = "MeshAxiData.dump" THEN MeshAxiData_dump(lcfile.now)
                ELSE MeshData_dump(lcfile.now)
       IN /\ lcfile' = [lcfile EXCEPT !.now = c.now]
          /\ IF c.err # "" THEN Raise(c.err, "dump")
             ELSE pc' = "done" /\ UNCHANGED <<err, fatal>>
    /\ UNCHANGED <<klog, meshfile, cliFrame>>

NextCli ==
    \/ Cli_getObject
    \/ Cli_initialize
    \/ Cli_dispatch
    \/ Cli_gmsh_box
    \/ Cli_gmsh_ids
    \/ Cli_gmsh_bcs
    \/ Cli_createMeshAxiData
    \/ Cli_gmsh_msh
    \/ Cli_gmsh_cracks
    \/ Cli_write
    \/ Cli_finalize
    \/ Lib_MSite_gmsh_ids
    \/ Lib_createMeshData
    \/ Lib_dump

SpecCli == InitCli /\ [][NextCli]_vars

(* ------------------------------------------------------------------ *)
(* Failure semantics of the pipeline                                    *)
(* ------------------------------------------------------------------ *)
Ended == prog \in {"cli", "MSite.gmsh_ids"} /\ pc \in {"failed", "done"}

(* the object, or one of its sub-magnets, is of a kind its dispatch table
   does not list *)
UnsupportedKind ==
    /\ Object.load = "ok"
    /\ \/ prog = "cli" /\ Object.kind \notin CliTable
       \/ prog = "cli" /\ Object.kind = "Bitters"
                       /\ FirstUnsupported(BittersTable, Object.subs) # 0
       \/ prog = "MSite.gmsh_ids" /\ FirstUnsupported(MSiteTable, Object.subs) # 0

(* C11: a build of a magnet of an unsupported kind, or of a composite with a
   sub-magnet of an unsupported kind, ends with an error and has issued no
   kernel call *)
C11_RejectedBeforeKernel ==
    (Ended /\ UnsupportedKind) => (err # "" /\ klog = <<>>)

(* C12: once a stage has detected a fatal condition no later stage is
   entered and no mesh file is written *)
C12_AbortsAtDetection ==
    (prog = "cli" /\ fatal # "") =>
        /\ stages[Len(stages)] = fatal
        /\ ~meshfile

(* the stage that loads the mesh-size file has run *)
LcLoaded ==
    \/ prog = "cli" /\ \E i \in 1..Len(stages) : stages[i] = "createMeshAxiData"
    \/ prog = "createMeshData" /\ pc # "start"

(* the build went on after that stage *)
LcContinued ==
    \/ prog = "cli" /\ (pc = "msh" \/ \E i \in 1..Len(stages) : stages[i] = "gmsh_msh")
    \/ prog = "createMeshData" /\ pc = "done"

(* C13: after the mesh-size file has been loaded, a file that was missing
   holds the defaults and the build has gone on; for a file that did not
   parse an error is raised and the file is as it was found *)
C13_MissingVsCorrupt ==
    LcLoaded =>
        /\ (lcfile.was = "missing" => (lcfile.now = "default" /\ LcContinued))
        /\ (lcfile.was = "corrupt" =>
               (lcfile.now = "corrupt" /\ err = "RuntimeError" /\ pc = "failed"))

C13_Witness ==
    /\ prog = "cli"
    /\ lcfile.was = "corrupt"
    /\ pc = "failed"
    /\ stages[Len(stages)] = "createMeshAxiData"
    /\ ~meshfile

(* the file existed when the program started *)
LcExisted == lcfile.was # "missing"

(* C29: a mesh-size file that exists is never modified: on every path
   through createMeshAxiData and createMeshData its content stays as it was
   found, and dump called on it raises FileExistsError *)
C29_ExistingFileKept ==
    (prog \in {"cli", "createMeshData", "MeshAxiData.dump", "MeshData.dump"} /\ LcExisted) =>
        /\ lcfile.now = lcfile.was
        /\ (prog \in {"MeshAxiData.dump", "MeshData.dump"} /\ pc # "start")
               => (err = "FileExistsError" /\ pc = "failed")

C29_Witness ==
    /\ prog = "MeshAxiData.dump"
    /\ lcfile = [was |-> "valid", now |-> "valid"]
    /\ stages = <<"dump">>
    /\ err = "FileExistsError"

(* ================================================================== *)
(* mesh/bcs.py: create_bcs called on a box, a tolerance and a model     *)
(* ================================================================== *)
(* curves of a model with its axis at r = 0: the axis, the bottom and the
   top of the air box, the inner radius of a magnet and a curve close to it *)
ModelCurves ==
    { Ent(1, 1, <<0, -50, 0, 50>>),
      Ent(1, 2, <<0, -50, 100, -50>>),
      Ent(1, 3, <<0, 50, 100, 50>>),
      Ent(1, 4, <<100, -50, 100, 50>>),
      Ent(1, 5, <<105, -50, 105, 50>>) }

(* boxes [rmin, zmin, rmax, zmax] of regions: ZAxis, the bottom, the inner
   radius, and a box away from every curve *)
RegionBoxes ==
    { <<0, -50, 0, 50>>,
      <<0, -50, 100, -50>>,
      <<100, -50, 100, 50>>,
      <<200, 0, 250, 0>> }

(* the box argument: one box, or a list of boxes *)
BoxInputs ==
    { [plain |-> TRUE, boxes |-> <<b>>] : b \in RegionBoxes }
    \cup { [plain |-> FALSE, boxes |-> bl] :
              bl \in UNION { [1..n -> RegionBoxes] : n \in 1..MaxBoxes } }

(* tolerances in units of 1/EpsDen: the default 1e-6, 0.05 and 1.0 *)
EpsValues == {DefaultEps, 50000, 1000000}

RegionName == Name1(Word("BC"))

InitBcs ==
    /\ prog = "create_bcs"
    /\ pc = "start"
    /\ ents \in SUBSET ModelCurves
    /\ box \in BoxInputs
    /\ eps \in EpsValues
    /\ bitter = [turns |-> 1, lead |-> FALSE, trail |-> FALSE, none |-> TRUE, nslits |-> 0]
    /\ thickslit = FALSE
    /\ m = <<>>
    /\ gmsh_ids = <<>>
    /\ isint = TRUE
    /\ gmsh_cracks = <<>>
    /\ EmptyKernel
    /\ FirstRun
    /\ NoChannels
    /\ NoSite
    /\ NoBitter2D
    /\ NoCli
    /\ NoMesh

(* create_bcs(name, box, 1, eps), lines 46-81; the caller keeps the id *)
Call_create_bcs ==
    /\ prog = "create_bcs"
    /\ pc = "start"
    /\ LET K == create_bcs_eps([phys |-> phys, max |-> physMax], ents, RegionName,
                               box.boxes, 1, eps)
       IN /\ phys' = K.phys
          /\ physMax' = K.max
          /\ defs' = DictSet(defs, RegionName, K.max)
    /\ diag' = diag \o Diag_create_bcs(ents, RegionName, box.boxes, box.plain, 1, eps)
    /\ kstate' = KRun(kstate, Calls_create_bcs(box.boxes))
    /\ pc' = "done"
    /\ UNCHANGED <<prog, err, bitterVars, channelVars, siteVars, b2dVars, runVars,
                   cliVars, bcsVars, meshVars>>

NextBcs == Call_create_bcs

SpecBcs == InitBcs /\ [][NextBcs]_vars

(* ------------------------------------------------------------------ *)
(* Properties of the box query                                          *)
(* ------------------------------------------------------------------ *)
Queried == prog = "create_bcs" /\ pc = "done"

(* the entities the region's query returns with tolerance e *)
Found(e) == BoxTags(ents, box.boxes, 1, e)

(* C14: when the query of a region returns no entity, create_bcs prints a
   diagnostic, registers an empty group under the region's name, returns its
   id and does not raise *)
C14_EmptyStillRegistered ==
    (Queried /\ Found(eps) = <<>>) =>
        /\ diag # <<>>
        /\ diag[Len(diag)].name = RegionName
        /\ err = ""
        /\ Len(phys) = 1
        /\ phys[1] = [dim |-> 1, id |-> physMax, name |-> RegionName, tags |-> <<>>]
        /\ DictGet(defs, RegionName) = physMax

C14_Witness ==
    /\ Queried /\ Found(eps) = <<>>
    /\ box.plain
    /\ ents # {}
    /\ Len(phys) = 1 /\ phys[1].tags = <<>>
    /\ Len(diag) = 1

(* the bounds of box b as lists <<value, padded value>>, the lower bounds
   (rmin, zmin) and the upper bounds (rmax, zmax) *)
LowerBounds(b, e) == {<<b[1], minmax(b, e)[1]>>, <<b[2], minmax(b, e)[3]>>}
UpperBounds(b, e) == {<<b[3], minmax(b, e)[2]>>, <<b[4], minmax(b, e)[4]>>}

Abs(v) == IF v < 0 THEN -v ELSE v

(* C15 as stated: every non-zero bound is scaled by (1+eps) when it is
   positive and by (1-eps) when it is negative *)
C15_ScaledByValueSign ==
    Queried =>
        \A k \in 1..Len(box.boxes) :
            \A p \in LowerBounds(box.boxes[k], eps) \cup UpperBounds(box.boxes[k], eps) :
                /\ (p[1] > 0 => p[2] = p[1] * (EpsDen + eps))
                /\ (p[1] < 0 => p[2] = p[1] * (EpsDen - eps))

(* C15 amended: the padding is outward: a non-zero upper bound is scaled by
   (1+eps) when positive and (1-eps) when negative, a non-zero lower bound by
   (1-eps) when positive and (1+eps) when negative, so that each moves away
   from the box by |bound| * eps *)
C15_PaddedOutward ==
    Queried =>
        \A k \in 1..Len(box.boxes) :
            /\ \A p \in UpperBounds(box.boxes[k], eps) :
                  /\ (p[1] > 0 => p[2] = p[1] * (EpsDen + eps))
                  /\ (p[1] < 0 => p[2] = p[1] * (EpsDen - eps))
                  /\ (p[1] # 0 => p[2] = p[1] * EpsDen + Abs(p[1]) * eps)
            /\ \A p \in LowerBounds(box.boxes[k], eps) :
                  /\ (p[1] > 0 => p[2] = p[1] * (EpsDen - eps))
                  /\ (p[1] < 0 => p[2] = p[1] * (EpsDen + eps))
                  /\ (p[1] # 0 => p[2] = p[1] * EpsDen - Abs(p[1]) * eps)

C15_Witness ==
    /\ Queried
    /\ box.boxes[1] = <<0, -50, 100, -50>>
    /\ eps = 50000
    /\ minmax(box.boxes[1], eps) = <<-50000, 105000000, -52500000, -47500000>>

(* C16: a bound at 0 becomes -eps when it is a lower bound and +eps when it
   is an upper bound, so the box of a region on the axis r = 0 has a width
   and its query returns the curve on the axis *)
C16_ZeroBound ==
    Queried =>
        \A k \in 1..Len(box.boxes) :
            /\ \A p \in LowerBounds(box.boxes[k], eps) : p[1] = 0 => p[2] = -eps
            /\ \A p \in UpperBounds(box.boxes[k], eps) : p[1] = 0 => p[2] = eps
            /\ (box.boxes[k][1] = 0 /\ box.boxes[k][3] = 0) =>
                  /\ minmax(box.boxes[k], eps)[1] < minmax(box.boxes[k], eps)[2]
                  /\ \A x \in ents : (x.dim = 1 /\ x.bb = box.boxes[k]) =>
                                          x.tag \in Range(phys[1].tags)

C16_Witness ==
    /\ Queried
    /\ box.plain
    /\ box.boxes[1] = <<0, -50, 0, 50>>
    /\ eps = DefaultEps
    /\ phys[1].tags = <<1>>

(* box a, padded, lies in box b, padded: both are (rmin, rmax, zmin, zmax) *)
Within(a, b) == a[1] >= b[1] /\ a[2] <= b[2] /\ a[3] >= b[3] /\ a[4] <= b[4]

(* C17: for tolerances e1 <= e2 the box padded with e2 contains the box
   padded with e1, and the query with e2 returns every entity the query with
   e1 returns *)
C17_ToleranceMonotone ==
    Queried =>
        \A e1 \in EpsValues : \A e2 \in EpsValues :
            e1 <= e2 =>
                /\ \A k \in 1..Len(box.boxes) :
                      Within(minmax(box.boxes[k], e1), minmax(box.boxes[k], e2))
                /\ Range(Found(e1)) \subseteq Range(Found(e2))

C17_Witness ==
    /\ Queried
    /\ eps = 50000
    /\ Range(phys[1].tags) = {4, 5}
    /\ Range(Found(DefaultEps)) = {4}

(* ================================================================== *)
(* mesh/axi.py: gmsh_msh composes the mesh-size field                   *)
(* ================================================================== *)
(* the physical groups of a built model: the conductor B1 with s1 surfaces,
   the conductor B2 with s2 surfaces (none when s2 = 0) and the curve group
   HP, registered in this order; surface and curve tags count from 1 *)
BuiltGroups(s1, s2) ==
    LET K0 == [phys |-> <<>>, max |-> 0]
        K1 == AddGroup(K0, 2, [t \in 1..s1 |-> t], Name1(Tok("B", 1)))
        K2 == IF s2 = 0 THEN K1
              ELSE AddGroup(K1, 2, [t \in 1..s2 |-> s1 + t], Name1(Tok("B", 2)))
    IN AddGroup(K2, 1, <<1>>, Name1(Word("HP")))

SizedNames == {Name1(Tok("B", 1)), Name1(Tok("B", 2)), Name1(Word("HP"))}

(* a mesh-size field of the kernel: list is the FieldsList of a Min field and
   the IField of a Threshold field *)
Field(t, ty, region, list) == [tag |-> t, type |-> ty, region |-> region, list |-> list]

(* gmsh.model.getPhysicalGroups(): the groups by dimension, then by tag
   (within a dimension the table is in the order of the tags) *)
getPhysicalGroups(P) ==
    LET OfDim(d) == SelectSeq(P, LAMBDA g : g.dim = d)
    IN OfDim(0) \o OfDim(1) \o OfDim(2) \o OfDim(3)

(* lines 98-135: lc_data has one entry per physical group whose name is in
   mesh_dict, in the order of getPhysicalGroups, with one box per entity *)
lc_data(P, md) == SelectSeq(getPhysicalGroups(P), LAMBDA g : g.name \in md)

(* lines 228-273: the Distance, Threshold and Box fields of the air *)
AirFields ==
    << Field(0, "Distance", <<>>, <<>>),
       Field(1, "Threshold", <<>>, <<0>>),
       Field(2, "Box", <<>>, <<>>) >>

(* lines 275-294: one Box field per box of every entry of lc, numbered from
   nfield on *)
RECURSIVE RegionFields(_, _)
RegionFields(lc, nfield) ==
    IF lc = <<>> THEN <<>>
    ELSE [k \in 1..Len(Head(lc).tags) |-> Field(nfield + k - 1, "Box", Head(lc).name, <<>>)]
         \o RegionFields(Tail(lc), nfield + Len(Head(lc).tags))

(* variant: the fields of the regions are not collected *)
dfields_AirOnly(air, rf) == IF air THEN <<1, 2>> ELSE <<>>

(* lines 242, 272 and 293: the tags appended to dfields *)
dfields(air, rf) == (IF air THEN <<1, 2>> ELSE <<>>) \o [i \in 1..Len(rf) |-> rf[i].tag]

(* line 67, unit = 1 *)
lcar1 == 80

(* meshdata.surfhypoths, looked up through mesh_dict (lines 104-111): the
   mesh size of a named region *)
lcs(name) ==
    IF name = Name1(Tok("B", 1)) THEN 10
    ELSE IF name = Name1(Tok("B", 2)) THEN 5
    ELSE 2

(* the surfaces of the model lie side by side: surface t has the points t
   and t + 1, and Origin (line 69) is the point added last *)
NSurfaces(P) ==
    LET S == UNION {Range(P[i].tags) : i \in {j \in 1..Len(P) : P[j].dim = 2}}
    IN IF S = {} THEN 0 ELSE CHOOSE t \in S : \A u \in S : u <= t
Origin(P) == NSurfaces(P) + 2
AllPoints(P) == 1..Origin(P)

(* lines 123-134: the points in the bounding box of surface `entity`, for
   every entity of the group *)
PtsOf(g) == UNION {{t, t + 1} : t \in Range(g.tags)}

(* variant: the global size is assigned after the sizes of the regions *)
SizeWrites_GlobalLast(P, md) ==
    LET lc == Reverse(lc_data(P, md))
    IN [i \in 1..Len(lc) |-> [name |-> lc[i].name, pts |-> PtsOf(lc[i]), lc |-> lcs(lc[i].name)]]
       \o <<[name |-> <<>>, pts |-> AllPoints(P), lc |-> lcar1]>>

(* the mesh.setSize calls in program order: line 75 for all the points, then
   lines 179-183 for the regions of lc_data in reverse order *)
SizeWrites(P, md) ==
    LET lc == Reverse(lc_data(P, md))
    IN <<[name |-> <<>>, pts |-> AllPoints(P), lc |-> lcar1]>>
       \o [i \in 1..Len(lc) |-> [name |-> lc[i].name, pts |-> PtsOf(lc[i]), lc |-> lcs(lc[i].name)]]

(* the size a point is left with is the one of the last call that names it *)
ApplySizes(W) ==
    [p \in UNION {W[i].pts : i \in 1..Len(W)} |->
        W[CHOOSE i \in 1..Len(W) :
              p \in W[i].pts /\ \A j \in (i + 1)..Len(W) : p \notin W[j].pts].lc]

(* gmsh_msh, lines 39-439, when the algorithm is not HXT (HXT_support is
   False): the fields, the background field and the kernel calls in program
   order *)
gmsh_msh(P, md, air) ==
    LET lc == Reverse(lc_data(P, md))
        n0 == IF air THEN Len(AirFields) ELSE 0
        rf == RegionFields(lc, n0)
        df == dfields(air, rf)
        nmin == n0 + Len(rf)
        made == (IF air THEN AirFields ELSE <<>>) \o rf
    IN [fields |-> made \o (IF df # <<>> THEN <<Field(nmin, "Min", <<>>, df)>> ELSE <<>>),
        background |-> IF df # <<>> THEN nmin ELSE -1,
        sized |-> SizeWrites(P, md),
        klog |-> <<"option.setNumber", "occ.addPoint", "occ.synchronize">>
                 \o Rep(<<"mesh.setSize">>, Len(SizeWrites(P, md)))
                 \o Rep(<<"mesh.field.add">>, Len(made))
                 \o (IF df # <<>>
                     THEN <<"mesh.field.add", "mesh.field.setAsBackgroundMesh">> ELSE <<>>)
                 \o <<"mesh.generate">>]

(* kinds of the kernel calls of lines 69-177 *)
Calls_gmsh_msh(P, md) ==
    <<"mut", "sync">>
    \o Rep(<<"table", "query", "query">>, Len(lc_data(P, md)))
    \o Rep(<<"table", "query", "query", "query">>, Cardinality({i \in 1..Len(P) : P[i].dim = 1}))

InitMesh ==
    /\ prog = "gmsh_msh"
    /\ pc = "start"
    /\ \E s1 \in 1..MaxSurfaces, s2 \in 0..MaxSurfaces :
          /\ phys = BuiltGroups(s1, s2).phys
          /\ physMax = BuiltGroups(s1, s2).max
    /\ mesh_dict \in SUBSET SizedNames
    /\ \E a \in BOOLEAN : args = [thickslit |-> FALSE, mesh |-> TRUE, air |-> a]
    /\ fields = <<>>
    /\ background = -1
    /\ boolcalls = <<>>
    /\ Air_data = 0
    /\ sized = <<>>
    /\ sizes = <<>>
    /\ NoTools
    /\ defs = <<>>
    /\ err = ""
    /\ kstate = "clean"
    /\ diag = <<>>
    /\ Object = [kind |-> "Bitter", load |-> "ok", subs |-> <<>>]
    /\ klog = <<>>
    /\ stages = <<>>
    /\ lcfile = [was |-> "valid", now |-> "valid"]
    /\ meshfile = FALSE
    /\ fatal = ""
    /\ FirstRun
    /\ NoBitter
    /\ NoChannels
    /\ NoSite
    /\ NoBitter2D
    /\ NoBcs

(* mesh.axi.gmsh_msh(algo, meshdata, refinedboxes, air, scaling) *)
Call_gmsh_msh ==
    /\ prog = "gmsh_msh"
    /\ pc = "start"
    /\ LET g == gmsh_msh(phys, mesh_dict, args.air)
       IN /\ fields' = g.fields
          /\ background' = g.background
          /\ klog' = klog \o g.klog
          /\ sized' = g.sized
          /\ sizes' = ApplySizes(g.sized)
    /\ kstate' = KRun(kstate, Calls_gmsh_msh(phys, mesh_dict))
    /\ stages' = Append(stages, "gmsh_msh")
    /\ pc' = "done"
    /\ UNCHANGED <<prog, phys, physMax, defs, err, diag, mesh_dict, Object, args, lcfile,
                   meshfile, fatal, bitterVars, channelVars, siteVars, b2dVars, runVars,
                   bcsVars, boolcalls, Air_data, toolVars>>

NextMesh == Call_gmsh_msh

SpecMesh == InitMesh /\ [][NextMesh]_vars

(* ------------------------------------------------------------------ *)
(* Properties of the mesh-size field                                    *)
(* ------------------------------------------------------------------ *)
Meshed == prog = "gmsh_msh" /\ pc = "done"

(* positions in fields of the fields made for a named region *)
FieldsOfRegions == {i \in 1..Len(fields) : fields[i].region # <<>>}
MinFields == {i \in 1..Len(fields) : fields[i].type = "Min"}

(* position of the first call named c in the kernel call log, 0 when none *)
FirstCall(c) ==
    LET W == {i \in 1..Len(klog) : klog[i] = c}
    IN IF W = {} THEN 0 ELSE CHOOSE i \in W : \A j \in W : i <= j

(* positions in the group table of the regions that carry a mesh size *)
SizedGroups == {i \in 1..Len(phys) : phys[i].name \in mesh_dict}

(* names of the sized regions in the order they were registered *)
RegisteredSized == SelectSeq(GroupNames, LAMBDA nm : nm \in mesh_dict)

(* C24: the sizes of the regions are applied in reverse registration order,
   and a point shared by two regions is left with the size of the region
   registered later *)
C24_LaterRegionWins ==
    Meshed =>
        /\ [i \in 1..(Len(sized) - 1) |-> sized[i + 1].name] = Reverse(RegisteredSized)
        /\ \A a \in SizedGroups : \A b \in SizedGroups :
              a < b => \A p \in PtsOf(phys[a]) \cap PtsOf(phys[b]) :
                          sizes[p] = lcs(phys[b].name)

(* C25: the first mesh.setSize call gives lcar1 to every point, every later
   one is for a region, every point outside the sized regions keeps lcar1,
   and the call precedes the creation of every field *)
C25_GlobalSizeFirst ==
    Meshed =>
        /\ sized # <<>>
        /\ sized[1] = [name |-> <<>>, pts |-> DOMAIN sizes, lc |-> lcar1]
        /\ \A i \in 2..Len(sized) : sized[i].name # <<>>
        /\ \A p \in DOMAIN sizes :
              (\A i \in SizedGroups : p \notin PtsOf(phys[i])) => sizes[p] = lcar1
        /\ Count(klog, "mesh.setSize") = Len(sized)
        /\ FirstCall("mesh.setSize") > 0
        /\ fields # <<>> => FirstCall("mesh.setSize") < FirstCall("mesh.field.add")

C25_Witness ==
    /\ Meshed
    /\ Len(sized) >= 3
    /\ fields # <<>>
    /\ \E p \in DOMAIN sizes : sizes[p] # lcar1
    /\ \E p \in DOMAIN sizes : sizes[p] = lcar1

(* C18: when a field has been made for a named region there is exactly one
   Min field, it lists every field made for a region, it is the background
   field, and it was installed before mesh.generate was called *)
C18_MinOfAllFields ==
    (Meshed /\ FieldsOfRegions # {}) =>
        /\ Cardinality(MinFields) = 1
        /\ \A i \in FieldsOfRegions : \A j \in MinFields :
              /\ Count(fields[j].list, fields[i].tag) = 1
              /\ background = fields[j].tag
        /\ FirstCall("mesh.field.setAsBackgroundMesh") > 0
        /\ FirstCall("mesh.field.setAsBackgroundMesh") < FirstCall("mesh.generate")

C18_Witness ==
    /\ Meshed
    /\ args.air
    /\ Cardinality({fields[i].region : i \in FieldsOfRegions}) >= 2
    /\ Cardinality(FieldsOfRegions) >= 3
    /\ \E j \in MinFields : background = fields[j].tag /\ Len(fields[j].list) >= 5

(* ================================================================== *)
(* Boolean calls of gmsh_ids / insert_ids and the surfaces registered   *)
(* ================================================================== *)
Surf(t) == Ent(2, t, <<>>)
SurfTags(E) == {x.tag : x \in {y \in E : y.dim = 2}}
MaxTag(S) == IF S = {} THEN 0 ELSE CHOOSE t \in S : \A u \in S : u <= t

(* what the kernel may do with the tags of the shapes handed to a boolean
   call: keep them, or hand out fresh ones *)
BoolSchemes == {"keep", "renumber"}

(* gmsh.model.occ.fragment([(2, object)], [(2, t) for t in tools]); inside:
   the tools lie inside the object, so that they are among its descendants *)
Call(o, T, inside) == [object |-> o, tools |-> T, inside |-> inside]

CallInputs(c) == <<c.object>> \o c.tools

(* the kernel's answer: the entities after the call and the descendant map,
   one list per input shape; a tag the kernel does not have makes it raise *)
fragment(E, c, sch) ==
    LET inp == CallInputs(c)
        n == Len(inp)
        base == MaxTag(SurfTags(E))
        out == IF sch = "keep" THEN inp ELSE [i \in 1..n |-> base + i]
    IN IF ~(Range(inp) \subseteq SurfTags(E))
       THEN [ok |-> FALSE, E |-> E, map |-> <<>>]
       ELSE [ok |-> TRUE,
             E |-> {x \in E : ~(x.dim = 2 /\ x.tag \in Range(inp))}
                   \cup {Surf(out[i]) : i \in 1..n},
             map |-> [i \in 1..n |->
                        IF i = 1
                        THEN [k \in 1..(IF c.inside THEN n ELSE 1) |-> <<2, out[k]>>]
                        ELSE << <<2, out[i]>> >>]]

(* the calls of cs in program order, up to the first one that raises *)
RECURSIVE RunCalls(_, _, _)
RunCalls(st, cs, sch) ==
    IF cs = <<>> \/ ~st.ok THEN st
    ELSE LET f == fragment(st.E, Head(cs), sch)
         IN RunCalls([E |-> f.E, ok |-> f.ok,
                      log |-> Append(st.log, [object |-> Head(cs).object,
                                              tools |-> Head(cs).tools,
                                              map |-> f.map])],
                     Tail(cs), sch)

(* MSite.py line 97, Bitters.py line 88, SupraStructure.py lines 222, 235 *)
step == 10

(* flat[x : x + step] for x in range(0, len(flat), step) *)
RECURSIVE Chunks(_, _)
Chunks(flat, n) ==
    IF flat = <<>> THEN <<>>
    ELSE IF Len(flat) <= n THEN <<flat>>
    ELSE <<SubSeq(flat, 1, n)>> \o Chunks(SubSeq(flat, n + 1, Len(flat)), n)

ChunkedCalls(o, flat, n, inside) ==
    [i \in 1..Len(Chunks(flat, n)) |-> Call(o, Chunks(flat, n)[i], inside)]

NewShapes(n) == {Surf(t) : t \in 1..n}

(* the air rectangle is added and fragmented with the tags of flat, n at a
   time *)
AddAir(st, flat, n, sch) ==
    LET A_id == MaxTag(SurfTags(st.E)) + 1
    IN [st |-> RunCalls([st EXCEPT !.E = @ \cup {Surf(A_id)}],
                        ChunkedCalls(A_id, flat, n, TRUE), sch),
        A_id |-> A_id]

(* Insert.gmsh_ids: every helix has three sections *)
H_ids(n) == [i \in 1..n |-> <<3 * i - 2, 3 * i - 1, 3 * i>>]

(* Insert.py lines 129-157: ring i (counted from 0) is added and fragmented
   with one section of each of its two helices *)
RECURSIVE RingsLoop(_, _, _, _)
RingsLoop(n, i, st, sch) ==
    IF i > n - 2 \/ ~st.st.ok THEN st
    ELSE LET _id == MaxTag(SurfTags(st.st.E)) + 1
             H == H_ids(n)
             tools == IF i % 2 # 0 THEN <<H[i + 1][1], H[i + 2][1]>>
                      ELSE <<H[i + 1][3], H[i + 2][3]>>
             r == RunCalls([st.st EXCEPT !.E = @ \cup {Surf(_id)}],
                           <<Call(_id, tools, FALSE)>>, sch)
         IN RingsLoop(n, i + 1, [st |-> r, R_ids |-> Append(st.R_ids, _id)], sch)

(* tags of the shapes of an HTS insert built tape by tape: double pancake j
   (counted from 0) is a pancake of a mandrin and n tapes of two shapes, an
   isolation, a second pancake, and the isolation to the next double pancake *)
DpBase(j, n) == j * (4 * n + 4)
flat_p0(j, n) == [k \in 1..(2 * n + 1) |-> DpBase(j, n) + k]
DpIsolation(j, n) == DpBase(j, n) + 2 * n + 2
flat_p1(j, n) == [k \in 1..(2 * n + 1) |-> DpIsolation(j, n) + k]
i_ids(j, n) == DpBase(j, n) + 4 * n + 4
HTSShapes(ndp, n) == ndp * (4 * n + 3) + (ndp - 1)

(* SupraStructure.py lines 250-262: the isolation of the double pancake is
   fragmented with flat_p1 followed by a chunk of flat_p1 *)
DpCalls(j, n) ==
    [i \in 1..Len(Chunks(flat_p1(j, n), step)) |->
        Call(DpIsolation(j, n), flat_p1(j, n) \o Chunks(flat_p1(j, n), step)[i], FALSE)]

(* SupraStructure.py lines 219-262, detail = "tape" *)
RECURSIVE TapeCalls(_, _, _)
TapeCalls(ndp, n, j) ==
    IF j > ndp - 1 THEN <<>>
    ELSE (IF j >= 1 THEN ChunkedCalls(i_ids(j - 1, n), flat_p0(j, n), step, FALSE) ELSE <<>>)
         \o (IF j < ndp - 1 THEN ChunkedCalls(i_ids(j, n), flat_p1(j, n), step, FALSE) ELSE <<>>)
         \o DpCalls(j, n)
         \o TapeCalls(ndp, n, j + 1)

(* a registration: the name given to the kernel, the key of the returned
   map, the tags *)
Reg(name, key, tags) == [name |-> name, key |-> key, tags |-> tags]

(* Helix.py lines 155-159, ring_bcs, Bitter.py lines 187-204: one surface
   group per tag gmsh_ids returned, named after its position *)
SolidRegs(kind, n, R_ids) ==
    IF kind = "Insert"
    THEN [t \in 1..(3 * n) |->
            LET nm == Name2(Tok("H", (t - 1) \div 3 + 1), Tok("Cu", (t - 1) % 3))
            IN Reg(nm, nm, <<t>>)]
         \o [i \in 1..Len(R_ids) |-> Reg(Name1(Tok("R", i)), Name1(Tok("R", i)), <<R_ids[i]>>)]
    ELSE [t \in 1..n |-> Reg(Name1(Tok("B", t)), Name1(Tok("B", t)), <<t>>)]

(* Bitter.py lines 261-268, Insert.py lines 243-248 *)
AirRegs(A_id) ==
    IF A_id = 0 THEN <<>> ELSE <<Reg(Name1(Word("Air")), Name1(Word("Air")), <<A_id>>)>>

(* SupraStructure.py lines 392-415: the groups of one pancake *)
PancakeRegs(i, p, first, n) ==
    <<Reg(<<Word("mandrin"), Tok("p", p), Tok("dp", i)>>,
          <<Word("mandrin"), Tok("p", p), Tok("dp", i)>>, <<first>>)>>
    \o [k \in 1..(2 * n) |->
          LET l == (k - 1) \div 2
              nm == <<Tok(IF k % 2 = 1 THEN "sc" ELSE "du", l), Tok("p", p), Tok("dp", i)>>
          IN Reg(nm, nm, <<first + k>>)]

(* SupraStructure.py lines 364-369 and 387-415, detail = "tape" *)
RECURSIVE DpRegs(_, _, _)
DpRegs(ndp, n, i) ==
    IF i > ndp - 1 THEN <<>>
    ELSE <<Reg(<<Word("i"), Tok("dp", i)>>, <<Word("i"), Tok("p", i)>>, <<DpIsolation(i, n)>>)>>
         \o PancakeRegs(i, 0, DpBase(i, n) + 1, n)
         \o PancakeRegs(i, 1, DpIsolation(i, n) + 1, n)
         \o DpRegs(ndp, n, i + 1)

insert_regs(ndp, n) ==
    [i \in 1..(ndp - 1) |->
        Reg(Name1(Tok("i", i - 1)), <<Word("i"), Tok("dp", i - 1)>>, <<i_ids(i - 1, n)>>)]
    \o DpRegs(ndp, n, 0)

(* addPhysicalGroup, setPhysicalName and defs[key] = ps for every
   registration *)
RegisterGroups(gs, st) ==
    LET base == MaxPhysicalTag(st.K.phys, 2)
        last(k) == CHOOSE i \in 1..Len(gs) :
                      gs[i].key = k /\ \A j \in (i + 1)..Len(gs) : gs[j].key # k
        given(k) == \E i \in 1..Len(gs) : gs[i].key = k
        fresh == SelectSeq([i \in 1..Len(gs) |-> i],
                           LAMBDA i : /\ ~DictHas(st.defs, gs[i].key)
                                      /\ \A j \in 1..(i - 1) : gs[j].key # gs[i].key)
    IN [K |-> [phys |-> st.K.phys \o [i \in 1..Len(gs) |->
                            [dim |-> 2, id |-> base + i, name |-> gs[i].name,
                             tags |-> gs[i].tags]],
               max |-> IF gs = <<>> THEN st.K.max ELSE base + Len(gs)],
        defs |-> [j \in 1..Len(st.defs) |->
                     IF given(st.defs[j][1])
                     THEN <<st.defs[j][1], base + last(st.defs[j][1])>> ELSE st.defs[j]]
                 \o [x \in 1..Len(fresh) |->
                        <<gs[fresh[x]].key, base + last(gs[fresh[x]].key)>>]]

BoolInputs ==
    [kind : {"Bitter"}, n : 1..MaxTurns, ndp : {1}]
    \cup [kind : {"Insert"}, n : 2..MaxHelices, ndp : {1}]
    \cup [kind : {"MSite", "Bitters"}, n : 0..MaxTools, ndp : {1}]
    \cup [kind : {"HTSInsert"}, n : 1..MaxTapes, ndp : 1..2]

InitBool ==
    /\ prog = "bool"
    /\ pc = "start"
    /\ \E O \in BoolInputs :
          Object = [kind |-> O.kind, load |-> "ok", subs |-> <<>>, n |-> O.n, ndp |-> O.ndp]
    /\ \E a \in BOOLEAN :
          /\ Object.kind = "HTSInsert" => ~a
          /\ args = [thickslit |-> FALSE, mesh |-> FALSE, air |-> a]
    /\ klog = <<>>
    /\ stages = <<>>
    /\ lcfile = [was |-> "missing", now |-> "missing"]
    /\ meshfile = FALSE
    /\ fatal = ""
    /\ EmptyKernel
    /\ FirstRun
    /\ NoBitter
    /\ NoChannels
    /\ NoSite
    /\ NoBitter2D
    /\ NoBcs
    /\ NoMesh

boolFrame ==
    UNCHANGED <<prog, bitter, thickslit, isint, gmsh_cracks, phys, physMax, defs, diag,
                channelVars, siteVars, b2dVars, runVars, cliVars, bcsVars,
                mesh_dict, fields, background, sized, sizes, toolVars>>

(* what gmsh_ids leaves behind: the kernel's entities, the calls, the tags
   it returns, and the exception of the kernel when a call raised *)
Returned(st, ids, A_id) ==
    /\ ents' = st.E
    /\ boolcalls' = st.log
    /\ m' = IF st.log = <<>> THEN <<>> ELSE st.log[Len(st.log)].map
    /\ gmsh_ids' = ids
    /\ Air_data' = A_id
    /\ kstate' = KRun(kstate, <<"mut", "sync">>)
    /\ IF st.ok THEN pc' = "ids" /\ err' = err
                ELSE pc' = "failed" /\ err' = "Exception"
    /\ boolFrame

Made(n) == [E |-> NewShapes(n), ok |-> TRUE, log |-> <<>>]

(* Bitter.gmsh_ids without cooling slits, lines 55-77 and 139-153 *)
Bitter_air_ids ==
    /\ prog = "bool" /\ pc = "start" /\ Object.kind = "Bitter"
    /\ \E sch \in BoolSchemes :
          LET ids == [t \in 1..Object.n |-> <<t>>]
              a == AddAir(Made(Object.n), flatten(ids), Object.n, sch)
          IN IF args.air THEN Returned(a.st, ids, a.A_id)
             ELSE Returned(Made(Object.n), ids, 0)

(* Insert.gmsh_ids, lines 109-177 *)
Insert_gmsh_ids ==
    /\ prog = "bool" /\ pc = "start" /\ Object.kind = "Insert"
    /\ \E sch \in BoolSchemes :
          LET n == Object.n
              r == RingsLoop(n, 0, [st |-> Made(3 * n), R_ids |-> <<>>], sch)
              flat_list == flatten(H_ids(n)) \o r.R_ids
              ids == [t \in 1..Len(flat_list) |-> <<flat_list[t]>>]
              a == AddAir(r.st, flat_list, Len(flat_list), sch)
          IN IF args.air /\ r.st.ok THEN Returned(a.st, ids, a.A_id)
             ELSE Returned(r.st, ids, 0)

(* MSite.gmsh_ids, lines 68-110, and Bitters.gmsh_ids, lines 60-97: flat_list
   has Object.n tags *)
Site_air_ids ==
    /\ prog = "bool" /\ pc = "start" /\ Object.kind \in {"MSite", "Bitters"}
    /\ \E sch \in BoolSchemes :
          LET ids == [t \in 1..Object.n |-> <<t>>]
              a == AddAir(Made(Object.n), flatten(ids), step, sch)
          IN IF args.air THEN Returned(a.st, ids, a.A_id)
             ELSE Returned(Made(Object.n), ids, 0)

(* SupraStructure.insert_ids, lines 138-262, detail = "tape", AirData = () *)
HTS_insert_ids ==
    /\ prog = "bool" /\ pc = "start" /\ Object.kind = "HTSInsert"
    /\ \E sch \in BoolSchemes :
          LET N == HTSShapes(Object.ndp, Object.n)
              st == RunCalls(Made(N), TapeCalls(Object.ndp, Object.n, 0), sch)
          IN Returned(st, [t \in 1..N |-> <<t>>], 0)

(* the surface groups registered by gmsh_bcs of Bitter, Insert, MSite and
   Bitters, and by SupraStructure.insert_bcs, from the tags gmsh_ids returned *)
Solids_bcs ==
    /\ prog = "bool" /\ pc = "ids"
    /\ LET n == Object.n
           R_ids == [i \in 1..(Len(gmsh_ids) - 3 * n) |-> gmsh_ids[3 * n + i][1]]
           gs == IF Object.kind = "HTSInsert" THEN insert_regs(Object.ndp, n)
                 ELSE SolidRegs(Object.kind, n, R_ids) \o AirRegs(Air_data)
           s1 == RegisterGroups(gs, [K |-> [phys |-> phys, max |-> physMax], defs |-> defs])
       IN /\ phys' = s1.K.phys
          /\ physMax' = s1.K.max
          /\ defs' = s1.defs
          /\ kstate' = KRun(kstate, Rep(<<"mut", "mut">>, Len(gs)))
    /\ pc' = "bcs"
    /\ UNCHANGED <<prog, err, diag, bitterVars, channelVars, siteVars, b2dVars, runVars,
                   cliVars, bcsVars, meshVars>>

NextBool ==
    \/ Bitter_air_ids
    \/ Insert_gmsh_ids
    \/ Site_air_ids
    \/ HTS_insert_ids
    \/ Solids_bcs

SpecBool == InitBool /\ [][NextBool]_vars

(* ------------------------------------------------------------------ *)
(* Properties of the boolean calls                                      *)
(* ------------------------------------------------------------------ *)
Registered == prog = "bool" /\ pc = "bcs"

(* C21: every registered surface tag that was handed to a boolean call is a
   tag of the descendant map of the last call it was handed to *)
C21_OnlyDescendantTags ==
    Registered =>
        \A g \in 1..Len(phys) : \A t \in Range(phys[g].tags) :
            \A i \in 1..Len(boolcalls) :
                (/\ t \in Range(CallInputs(boolcalls[i]))
                 /\ \A j \in (i + 1)..Len(boolcalls) : t \notin Range(CallInputs(boolcalls[j])))
                => \E d \in 1..Len(boolcalls[i].map) :
                      <<2, t>> \in Range(boolcalls[i].map[d])

(* C26: when gmsh_bcs or insert_bcs has returned, every physical group of
   the kernel has a name no other group carries, that name is a key of the
   returned map and the map gives that group's id; and every entry of the
   map is the id of a group of that name *)
C26_MapMatchesGroups ==
    Registered =>
        /\ \A g \in 1..Len(phys) :
              /\ \A h \in 1..Len(phys) : phys[h].name = phys[g].name => h = g
              /\ DictHas(defs, phys[g].name)
              /\ DictGet(defs, phys[g].name) = phys[g].id
        /\ \A j \in 1..Len(defs) :
              \E g \in 1..Len(phys) : phys[g].name = defs[j][1] /\ phys[g].id = defs[j][2]

(* the boolean calls of these structures are issued by chunking loops *)
Chunking == prog = "bool" /\ Object.kind \in {"MSite", "Bitters", "HTSInsert"}

(* C23: no boolean call issued by a chunking loop is handed more than 10
   tool shapes *)
C23_AtMostTenTools ==
    Chunking => \A i \in 1..Len(boolcalls) : Len(boolcalls[i].tools) <= 10

(* ================================================================== *)
(* The slices of gmsh_ids: turns and stubs (Bitter.py, Helix.py)         *)
(* ================================================================== *)
(* lengths along the axis are in units of 1e-11; Bitter.py line 58 *)
tol == 10

(* distance between the requested axial bound and the turn stack *)
Gaps == {0, 9, 10, 11}

(* pitch of every section of the turn stack *)
SlicePitch == 100

StubInputs == [kind : {"Bitter", "Helix"}, turns : 1..MaxTurns, gap0 : Gaps, gap1 : Gaps]

(* Bitter.py lines 59 and 73: abs(y - Bitter.z[.]) >= tol;
   Helix.py lines 93 and 110: abs(y - Helix.z[.]) >= 0 *)
StubWanted(kind, gap) == IF kind = "Bitter" THEN gap >= tol ELSE gap >= 0

(* Bitter.py lines 55-77, Helix.py lines 85-121 without chamfers: the
   rectangles in the order they are added, as <<zlow, zhigh>>; y starts at
   -h and z[0] = -h - gap0, z[1] = h + gap1 *)
Slices(O) ==
    LET y == -((O.turns * SlicePitch) \div 2)
        top == y + O.turns * SlicePitch
    IN (IF StubWanted(O.kind, O.gap0) THEN << <<y - O.gap0, y>> >> ELSE <<>>)
       \o [i \in 1..O.turns |-> <<y + (i - 1) * SlicePitch, y + i * SlicePitch>>]
       \o (IF StubWanted(O.kind, O.gap1) THEN << <<top, top + O.gap1>> >> ELSE <<>>)

InitStub ==
    /\ prog = "stub"
    /\ pc = "start"
    /\ \E O \in StubInputs :
          Object = [kind |-> O.kind, load |-> "ok", subs |-> <<>>, turns |-> O.turns,
                    gap0 |-> O.gap0, gap1 |-> O.gap1]
    /\ args = [thickslit |-> FALSE, mesh |-> FALSE]
    /\ klog = <<>>
    /\ stages = <<>>
    /\ lcfile = [was |-> "missing", now |-> "missing"]
    /\ meshfile = FALSE
    /\ fatal = ""
    /\ EmptyKernel
    /\ FirstRun
    /\ NoBitter
    /\ NoChannels
    /\ NoSite
    /\ NoBitter2D
    /\ NoBcs
    /\ NoMesh

(* gmsh_ids of a Bitter without cooling slits or of a Helix without
   chamfers, AirData = () *)
Stub_gmsh_ids ==
    /\ prog = "stub" /\ pc = "start"
    /\ LET S == Slices(Object)
       IN /\ ents' = {Ent(2, t, <<100, S[t][1], 150, S[t][2]>>) : t \in 1..Len(S)}
          /\ gmsh_ids' = [t \in 1..Len(S) |-> <<t>>]
          /\ kstate' = KRun(kstate, Rep(<<"mut">>, Len(S)) \o <<"sync">>)
    /\ pc' = "ids"
    /\ UNCHANGED <<prog, bitter, thickslit, m, isint, gmsh_cracks, phys, physMax, defs, err,
                   diag, channelVars, siteVars, b2dVars, runVars, cliVars, bcsVars, meshVars>>

NextStub == Stub_gmsh_ids

SpecStub == InitStub /\ [][NextStub]_vars

(* ------------------------------------------------------------------ *)
(* Properties of the stubs                                              *)
(* ------------------------------------------------------------------ *)
Sliced == prog = "stub" /\ pc = "ids"

StackLow == -((Object.turns * SlicePitch) \div 2)
StackHigh == StackLow + Object.turns * SlicePitch

(* the slices that end where the turn stack starts, and those that start
   where it ends *)
LeadStubs == {x \in ents : x.bb[4] = StackLow}
TrailStubs == {x \in ents : x.bb[2] = StackHigh}

(* C22 as stated: a leading (trailing) stub is inserted if and only if the
   distance is at least tol, and without stubs there is one slice per turn *)
C22_StubIffGap ==
    Sliced =>
        /\ LeadStubs # {} <=> Object.gap0 >= tol
        /\ TrailStubs # {} <=> Object.gap1 >= tol
        /\ (Object.gap0 < tol /\ Object.gap1 < tol) => Len(gmsh_ids) = Object.turns

(* ================================================================== *)
(* xao2msh.main and mesh/groups.py: the physical surfaces of a 2D xao   *)
(* file                                                                 *)
(* ================================================================== *)
(* a name as the string Python compares: one code per character, a word
   standing for its first letter (no word used here starts another) *)
WordCode(w) ==
    CASE w = "Air" -> 65
      [] w = "B" -> 66
      [] w = "Other" -> 79
      [] w = "R" -> 82
      [] w = "Slit" -> 83

RECURSIVE Digits(_)
Digits(n) == IF n < 10 THEN <<48 + n>> ELSE Digits(n \div 10) \o <<48 + (n % 10)>>

Chars(name) ==
    flatten([i \in 1..Len(name) |->
                (IF i > 1 THEN <<95>> ELSE <<>>)
                \o <<WordCode(name[i][1])>>
                \o (IF name[i][2] < 0 THEN <<>> ELSE Digits(name[i][2]))])

(* r.match(key) with r = re.compile(f"^{group}"): the string group starts
   the string key *)
StrPrefix(p, q) == Len(p) <= Len(q) /\ SubSeq(q, 1, Len(p)) = p

(* the order of str *)
RECURSIVE StrLess(_, _)
StrLess(p, q) ==
    IF q = <<>> THEN FALSE
    ELSE IF p = <<>> THEN TRUE
    ELSE IF Head(p) # Head(q) THEN Head(p) < Head(q)
    ELSE StrLess(Tail(p), Tail(q))

(* SGroups.sort() followed by list(dict.fromkeys(SGroups)) *)
RECURSIVE SortNames(_)
SortNames(S) ==
    IF S = {} THEN <<>>
    ELSE LET x == CHOOSE y \in S : \A z \in S \ {y} : StrLess(Chars(y), Chars(z))
         IN <<x>> \o SortNames(S \ {x})

(* re.search(r"_Slit\d+", name) *)
HasSlit(name) == \E i \in 2..Len(name) : name[i][1] = "Slit" /\ name[i][2] >= 0

(* the names of the face groups of a 2D xao file: the sections of Bitter
   plates cut by cooling slits, a ring, the air *)
SurfaceNames ==
    {Name2(Tok("B", j), Tok("Slit", k)) : j \in {1, 10}, k \in 0..1}
    \cup {Name2(Tok("B", 2), Tok("Slit", 0)), Name1(Tok("R", 1)), Name1(Word("Air"))}

(* lists of n different names *)
RECURSIVE Picks(_, _)
Picks(S, n) ==
    IF n = 0 THEN {<<>>}
    ELSE UNION {{<<x>> \o t : t \in Picks(S \ {x}, n - 1)} : x \in S}

AirName == Name1(Word("Air"))
Keys(d) == [i \in 1..Len(d) |-> d[i][1]]

(* mesh/groups.py lines 45-90, is2D: the names with a slit suffix are
   stripped; every stripped name collects the keys it starts, these keys
   are excluded, and one physical surface is made of them; every key that
   is not excluded gets a physical surface of its own. A 2D file has no
   group of dimension "solid": vtags is empty *)
create_physicalgroups(st, ex0, first) ==
    LET keys == Keys(st)
        match == SelectSeq(keys, HasSlit)
        SGroups == SortNames({StripSlit(match[i]) : i \in 1..Len(match)})
        newlist(g) == SelectSeq(keys, LAMBDA k : StrPrefix(Chars(g), Chars(k)))
        dict_tags == [i \in 1..Len(SGroups) |-> <<SGroups[i], newlist(SGroups[i])>>]
        ex1 == ex0 \o flatten([i \in 1..Len(SGroups) |-> newlist(SGroups[i])])
        based == SelectSeq(dict_tags, LAMBDA e : e[1] \notin Range(ex1))
        own == SelectSeq(st, LAMBDA e : e[1] \notin Range(ex1))
    IN [excluded_tags |-> ex1,
        groups |->
          [i \in 1..Len(based) |->
              [dim |-> 2, id |-> first + i, name |-> based[i][1],
               tags |-> flatten([j \in 1..Len(based[i][2]) |-> DictGet(st, based[i][2][j])])]]
          \o [i \in 1..Len(own) |->
                [dim |-> 2, id |-> first + Len(based) + i, name |-> own[i][1],
                 tags |-> own[i][2]]]]

(* the file: up to MaxNames face groups of one entity each; the yaml file
   names every solid but the air, or misses one, or names another instead *)
InitGroups ==
    /\ prog = "xao2msh"
    /\ pc = "start"
    /\ \E n \in 1..MaxNames : \E ks \in Picks(SurfaceNames, n) :
          /\ stags = [i \in 1..n |-> <<ks[i], <<i>>>>]
          /\ \E miss \in {0} \cup {i \in 1..n : ks[i] # AirName} : \E other \in BOOLEAN :
                /\ other => miss # 0
                /\ solid_names =
                      ({ks[i] : i \in 1..n} \ ({AirName} \cup {ks[i] : i \in {miss} \cap (1..n)}))
                      \cup (IF other THEN {Name1(Word("Other"))} ELSE {})
    /\ excluded_tags = <<>>
    /\ cracked = <<>>
    /\ NoMerge
    /\ mesh_dict = {}
    /\ fields = <<>>
    /\ background = -1
    /\ boolcalls = <<>>
    /\ Air_data = 0
    /\ sized = <<>>
    /\ sizes = <<>>
    /\ Object = [kind |-> "Bitter", load |-> "ok", subs |-> <<>>]
    /\ args = [thickslit |-> FALSE, mesh |-> TRUE]
    /\ klog = <<>>
    /\ stages = <<>>
    /\ lcfile = [was |-> "missing", now |-> "missing"]
    /\ meshfile = FALSE
    /\ fatal = ""
    /\ EmptyKernel
    /\ FirstRun
    /\ NoBitter
    /\ NoChannels
    /\ NoSite
    /\ NoBitter2D
    /\ NoBcs

xaoFrame ==
    UNCHANGED <<prog, bitterVars, physMax, defs, diag, kstate, channelVars, siteVars,
                b2dVars, runVars, cliVars, bcsVars, mesh_dict, fields, background,
                boolcalls, Air_data, sized, sizes, cracked, stags, filenames, disk,
                new_msh, imesh, merged>>

(* xao2msh.py lines 221-243: the names loadcfg returned, the names excluded
   because the yaml file does not list them, and the count of the solids.
   The name of a file with an air region holds "Air" *)
Xao_loadcfg ==
    /\ prog = "xao2msh" /\ pc = "start"
    /\ excluded_tags' = SelectSeq(Keys(stags),
                                  LAMBDA k : k \notin solid_names /\ k # AirName)
    /\ solid_names' = solid_names \cup (IF DictHas(stags, AirName) THEN {AirName} ELSE {})
    /\ IF Cardinality(solid_names') # Len(flatten([i \in 1..Len(stags) |-> stags[i][2]]))
       THEN err' = "AssertionError" /\ pc' = "failed"
       ELSE err' = err /\ pc' = "cfg"
    /\ UNCHANGED phys
    /\ xaoFrame

(* xao2msh.py lines 247-256 *)
Xao_create_physicalgroups ==
    /\ prog = "xao2msh" /\ pc = "cfg"
    /\ LET c == create_physicalgroups(stags, excluded_tags, Len(phys))
       IN /\ phys' = phys \o c.groups
          /\ excluded_tags' = c.excluded_tags
    /\ pc' = "groups"
    /\ UNCHANGED <<err, solid_names>>
    /\ xaoFrame

NextGroups ==
    \/ Xao_loadcfg
    \/ Xao_create_physicalgroups

SpecGroups == InitGroups /\ [][NextGroups]_vars

(* ------------------------------------------------------------------ *)
(* Properties of the physical surfaces                                  *)
(* ------------------------------------------------------------------ *)
Grouped == prog = "xao2msh" /\ pc = "groups"

(* the yaml file lists every face group of the file *)
AllListed == \A i \in 1..Len(stags) : stags[i][1] \in solid_names

(* the stripped names of the slit-split solids *)
BaseNames == {StripSlit(stags[i][1]) : i \in {j \in 1..Len(stags) : HasSlit(stags[j][1])}}

(* the entities of the face groups whose stripped name is b *)
EntitiesOfBase(b) ==
    UNION {Range(stags[i][2]) : i \in {j \in 1..Len(stags) : StripSlit(stags[j][1]) = b}}

(* C27: in 2D mode the physical surface made for a stripped name holds
   exactly the entities of the face groups whose stripped name it is, and
   every face group lies in exactly one physical surface *)
C27_BaseGroupsExact ==
    (Grouped /\ AllListed) =>
        /\ \A g \in 1..Len(phys) :
              phys[g].name \in BaseNames => Range(phys[g].tags) = EntitiesOfBase(phys[g].name)
        /\ \A i \in 1..Len(stags) :
              Cardinality({g \in 1..Len(phys) : Range(stags[i][2]) \subseteq Range(phys[g].tags)}) = 1

(* the same, for files in which no stripped name starts another name of a
   different base *)
NoNameStartsAnother ==
    \A b \in BaseNames : \A i \in 1..Len(stags) :
        StrPrefix(Chars(b), Chars(stags[i][1])) => StripSlit(stags[i][1]) = b

C27_ExactUnlessPrefix ==
    (Grouped /\ AllListed /\ NoNameStartsAnother) =>
        /\ \A g \in 1..Len(phys) :
              phys[g].name \in BaseNames => Range(phys[g].tags) = EntitiesOfBase(phys[g].name)
        /\ \A i \in 1..Len(stags) :
              Cardinality({g \in 1..Len(phys) : Range(stags[i][2]) \subseteq Range(phys[g].tags)}) = 1

C27_Witness ==
    /\ Grouped /\ AllListed /\ NoNameStartsAnother
    /\ Len(stags) = 3
    /\ \E g \in 1..Len(phys) : phys[g].name \in BaseNames /\ Len(phys[g].tags) = 2
    /\ \E g \in 1..Len(phys) : phys[g].name = Name1(Tok("R", 1))

(* ================================================================== *)
(* mesh/axi.py gmsh_cracks: the Crack plugin on the cooling slits of a  *)
(* Bitter                                                               *)
(* ================================================================== *)
(* w in name, for a word w: containment of str tells the case of the
   letters apart, and no word of a region name lies inside another *)
NameHolds(name, w) == \E i \in 1..Len(name) : name[i][1] = w

(* lines 449-457: cracks[namGroup] = tagGroup for the groups whose name
   holds "slit", in the order of getPhysicalGroups *)
RECURSIVE CrackDict(_, _)
CrackDict(G, d) ==
    IF G = <<>> THEN d
    ELSE CrackDict(Tail(G),
                   IF NameHolds(Head(G).name, "slit")
                   THEN DictSet(d, Head(G).name, Head(G).id) ELSE d)

(* mesh/axi.py lines 444-472: the physical tags the Crack plugin is run on,
   one run per entry of cracks *)
axi_gmsh_cracks(P) ==
    LET cracks == CrackDict(getPhysicalGroups(P), <<>>)
    IN [i \in 1..Len(cracks) |-> cracks[i][2]]

(* cli.py lines 305-307: the mesh is generated, then gmsh_cracks runs unless
   the slits are thick *)
Bitter_gmsh_cracks ==
    /\ prog = "Bitter"
    /\ pc = "bcs"
    /\ cracked' = (IF ~thickslit THEN cracked \o axi_gmsh_cracks(phys) ELSE cracked)
    /\ kstate' = KRun(kstate, Calls_gmsh_msh(phys, mesh_dict) \o <<"table">>)
    /\ pc' = "meshed"
    /\ UNCHANGED <<prog, bitterVars, phys, physMax, defs, err, diag, channelVars, siteVars,
                   b2dVars, runVars, cliVars, bcsVars, mesh_dict, fields, background,
                   boolcalls, Air_data, sized, sizes, stags, solid_names, excluded_tags,
                   filenames, disk, new_msh, imesh, merged>>

NextCrack ==
    \/ Bitter_gmsh_ids
    \/ Bitter_gmsh_bcs
    \/ Bitter_gmsh_cracks

SpecCrack == InitBitter /\ [][NextCrack]_vars

(* ------------------------------------------------------------------ *)
(* Properties of the cracks                                             *)
(* ------------------------------------------------------------------ *)
CrackedMesh == prog = "Bitter" /\ pc = "meshed" /\ ~thickslit

(* the physical tags of the curve groups gmsh_bcs made of the realized slit
   curves (Bitter.py lines 221-231): they follow the groups of the solids *)
SlitCurveGroups ==
    IF bitter.none THEN {}
    ELSE {phys[g].id : g \in {h \in (Len(gmsh_ids) + 1)..(Len(gmsh_ids) + Len(gmsh_cracks)) :
                                  h <= Len(phys) /\ phys[h].dim = 1}}

(* C28: on a mesh with zero-width slits the Crack plugin has run exactly
   once on every slit curve group made of realized slit curves, and on no
   other physical group *)
C28_CrackPerSlitGroup ==
    CrackedMesh =>
        /\ \A t \in SlitCurveGroups : Count(cracked, t) = 1
        /\ \A i \in 1..Len(cracked) : cracked[i] \in SlitCurveGroups

(* ================================================================== *)
(* utils/merge2Dmeshes.py: retagging and merging 2D meshes              *)
(* ================================================================== *)
(* a mesh: its entities <<dim, tag>> and its physical groups *)
Group(d, t, nm, tags) == [dim |-> d, id |-> t, name |-> nm, tags |-> tags]

MeshInputs ==
    { [ents |-> {<<1, 1>>, <<2, 1>>},
       phys |-> <<Group(2, 1, <<"S">>, <<1>>)>>],
      [ents |-> {<<1, 1>>, <<1, 2>>, <<2, 1>>, <<2, 2>>},
       phys |-> <<Group(1, 1, <<"C">>, <<1, 2>>), Group(2, 1, <<"S">>, <<1>>),
                  Group(2, 2, <<"T">>, <<2>>)>>],
      [ents |-> {<<1, 999>>, <<2, 999>>},
       phys |-> <<Group(2, 999, <<"S">>, <<999>>)>>],
      [ents |-> {<<2, 2001>>},
       phys |-> <<Group(2, 2001, <<"S">>, <<2001>>)>>] }

(* file names without the extension, as lists of words joined by "_" *)
MeshFiles == {<<"a">>, <<"b">>, <<"a", "temp">>}

(* mesh.replace(".msh", "_temp.msh") *)
TempName(f) == Append(f, "temp")

(* the command lines: up to n file names, in any order, repeated or not *)
RECURSIVE MeshLists(_)
MeshLists(n) ==
    IF n = 0 THEN {<<>>}
    ELSE LET S == MeshLists(n - 1)
         IN S \cup {Append(s, f) : s \in {t \in S : Len(t) = n - 1}, f \in MeshFiles}

(* variant: every mesh is shifted by 1000, whatever its rank *)
retag_SameOffset(M, k) ==
    LET shift(t) == IF t < 1000 THEN t + 1000 ELSE t
    IN [ents |-> {<<e[1], shift(e[2])>> : e \in {x \in M.ents : x[1] \in {0, 1, 2}}}
                 \cup {x \in M.ents : x[1] \notin {0, 1, 2}},
        phys |-> [g \in 1..Len(M.phys) |->
                    Group(M.phys[g].dim, M.phys[g].id + 1000, Append(M.phys[g].name, k),
                          [j \in 1..Len(M.phys[g].tags) |-> shift(M.phys[g].tags[j])])]]

(* lines 45-71: every entity of dimension 0, 1, 2 whose tag is below 1000
   gets the tag tag + i * 1000 (setTag; the removeEntities that follows
   names tags that no longer exist); every physical group is removed and
   added again with the tag tagGroup + i * 1000, the entities it has now
   and the name f"{namGroup}_{i}" *)
retag(M, k) ==
    LET shift(t) == IF t < 1000 THEN t + k * 1000 ELSE t
    IN [ents |-> {<<e[1], shift(e[2])>> : e \in {x \in M.ents : x[1] \in {0, 1, 2}}}
                 \cup {x \in M.ents : x[1] \notin {0, 1, 2}},
        phys |-> [g \in 1..Len(M.phys) |->
                    Group(M.phys[g].dim, M.phys[g].id + k * 1000, Append(M.phys[g].name, k),
                          [j \in 1..Len(M.phys[g].tags) |-> shift(M.phys[g].tags[j])])]]

(* every file of MeshFiles holds a mesh; the command line names some *)
InitMerge ==
    /\ prog = "merge2Dmeshes"
    /\ pc = "start"
    /\ filenames \in (MeshLists(MaxMeshes) \ {<<>>})
    /\ \E c \in [MeshFiles -> MeshInputs] :
          LET d == [f \in 1..3 |->
                      LET nm == <<<<"a">>, <<"b">>, <<"a", "temp">>>>[f] IN <<nm, c[nm]>>]
          IN disk = [was |-> d, now |-> d]
    /\ new_msh = <<>>
    /\ imesh = 1
    /\ merged = <<>>
    /\ NoCracks
    /\ NoXao
    /\ mesh_dict = {}
    /\ fields = <<>>
    /\ background = -1
    /\ boolcalls = <<>>
    /\ Air_data = 0
    /\ sized = <<>>
    /\ sizes = <<>>
    /\ Object = [kind |-> "Bitter", load |-> "ok", subs |-> <<>>]
    /\ args = [thickslit |-> FALSE, mesh |-> TRUE]
    /\ klog = <<>>
    /\ stages = <<>>
    /\ lcfile = [was |-> "missing", now |-> "missing"]
    /\ meshfile = FALSE
    /\ fatal = ""
    /\ EmptyKernel
    /\ FirstRun
    /\ NoBitter
    /\ NoChannels
    /\ NoSite
    /\ NoBitter2D
    /\ NoBcs

mergeFrame ==
    UNCHANGED <<prog, bitterVars, phys, physMax, defs, diag, kstate, channelVars, siteVars,
                b2dVars, runVars, cliVars, bcsVars, mesh_dict, fields, background,
                boolcalls, Air_data, sized, sizes, cracked, stags, solid_names,
                excluded_tags, filenames>>

(* lines 34-93, one turn of the loop: the mesh is opened, retagged and
   written to its temporary file *)
Merge_retag ==
    /\ prog = "merge2Dmeshes"
    /\ pc = "start"
    /\ imesh <= Len(filenames)
    /\ LET mesh == filenames[imesh]
       IN /\ disk' = [disk EXCEPT !.now = DictSet(disk.now, TempName(mesh),
                                                   retag(DictGet(disk.now, mesh), imesh))]
          /\ new_msh' = Append(new_msh, TempName(mesh))
    /\ imesh' = imesh + 1
    /\ UNCHANGED <<pc, err, merged>>
    /\ mergeFrame

(* lines 95-117: the first temporary file is opened, the others are merged
   into the model, and the temporary files are removed one by one *)
Merge_merge ==
    /\ prog = "merge2Dmeshes"
    /\ pc = "start"
    /\ imesh > Len(filenames)
    /\ merged' = [k \in 1..Len(new_msh) |-> DictGet(disk.now, new_msh[k])]
    /\ disk' = [disk EXCEPT !.now = SelectSeq(disk.now, LAMBDA e : e[1] \notin Range(new_msh))]
    /\ IF \E k \in 1..Len(new_msh) : \E l \in (k + 1)..Len(new_msh) : new_msh[k] = new_msh[l]
       THEN err' = "FileNotFoundError" /\ pc' = "failed"
       ELSE err' = err /\ pc' = "merged"
    /\ UNCHANGED <<new_msh, imesh>>
    /\ mergeFrame

NextMerge ==
    \/ Merge_retag
    \/ Merge_merge

SpecMerge == InitMerge /\ [][NextMerge]_vars

(* ------------------------------------------------------------------ *)
(* Properties of the merge                                              *)
(* ------------------------------------------------------------------ *)
Merged == prog = "merge2Dmeshes" /\ merged # <<>>

(* the physical groups of a mesh as <<dim, tag>> *)
GroupTags(M) == {<<M.phys[g].dim, M.phys[g].id>> : g \in 1..Len(M.phys)}

(* the meshes of the command line, as they were before the program ran *)
InputMesh(k) == DictGet(disk.was, filenames[k])

(* their entity tags and physical-group tags are all below 1000 *)
AllBelow1000 ==
    \A k \in 1..Len(filenames) :
        /\ \A e \in InputMesh(k).ents : e[2] < 1000
        /\ \A t \in GroupTags(InputMesh(k)) : t[2] < 1000

(* no two of the meshes read by the merge share an entity or a physical
   group *)
NoSharedTags ==
    \A k \in 1..Len(merged) : \A l \in 1..Len(merged) :
        k # l => /\ merged[k].ents \cap merged[l].ents = {}
                 /\ GroupTags(merged[k]) \cap GroupTags(merged[l]) = {}

(* C30 as stated: for input meshes with tags below 1000, whatever their
   number and order, no two of them share an entity (dimension, tag) or a
   physical group (dimension, tag) after the retagging *)
C30_NoSharedTags == (Merged /\ AllBelow1000) => NoSharedTags

(* the file names of the command line differ from one another and none is
   the temporary file of another *)
DistinctFiles ==
    \A k \in 1..Len(filenames) : \A l \in 1..Len(filenames) :
        k # l => filenames[k] # filenames[l] /\ filenames[k] # TempName(filenames[l])

(* C30, amended: the same for command lines whose file names differ from one
   another and from the temporary files *)
C30_DistinctFilesNoSharedTags ==
    (Merged /\ AllBelow1000 /\ DistinctFiles) => NoSharedTags

C30_Witness ==
    /\ Merged /\ AllBelow1000 /\ DistinctFiles
    /\ Len(merged) >= 2
    /\ InputMesh(1).ents \cap InputMesh(2).ents # {}
    /\ GroupTags(InputMesh(1)) \cap GroupTags(InputMesh(2)) # {}
    /\ NoSharedTags

(* ------------------------------------------------------------------ *)
(* Kernel call discipline                                               *)
(* ------------------------------------------------------------------ *)
(* C9: on every path a synchronize call stands between a kernel-mutating
   call and the next bounding-box or entities-in-box query: the kernel is
   never queried while a mutation is not synchronized *)
C9_SynchronizedQueries == kstate # "stale"

====
